---- MODULE Spec2Model ----
(***************************************************************************)
(* dmshx: concurrent multi-host SSH command execution, file upload and     *)
(* file download (internal/ssh), modelled as one worker goroutine per host *)
(* entry, one background wait/copy goroutine per worker, the WaitGroup     *)
(* barrier of the calling function, the local file system shared by all    *)
(* workers and one remote file system per host name.                       *)
(*                                                                         *)
(* Paths are sequences of path segments: filepath.Join is concatenation    *)
(* and filepath.Base the last segment.  The local file system follows      *)
(* POSIX: os.Create truncates the file a path names, os.Remove unlinks the *)
(* path and leaves handles that other goroutines hold on the file usable   *)
(* but no longer visible under the path.                                   *)
(***************************************************************************)
EXTENDS Integers, Sequences, FiniteSets, TLC

\* ---------------------------------------------------------------- bounds
MaxHosts == 2
MaxTimeout == 1
MaxElapsed == MaxTimeout + 1
MaxRows == 2
MaxTicks == 1
MaxDay == 3

Workers == 1..MaxHosts
HostNames == {<<"a">>, <<"b">>}

\* Host lists of 1..MaxHosts entries without a port; the first entry is host
\* "a" (the two names are interchangeable up to the files their hosts hold).
\* A host entry is the sequence of its characters.
HostLists ==
  { hs \in UNION { [1..n -> HostNames] : n \in 1..MaxHosts } : hs[1] = <<"a">> }

NoErr == [kind |-> "", secs |-> 0]
Err(k) == [kind |-> k, secs |-> 0]

VARIABLES
  config,     \* pkg.Config of the invocation (read-only once parsed)
  hosts,      \* the host list handed to the operation
  mainpc,     \* position of the calling function
  wg,         \* sync.WaitGroup counter
  pc,         \* pc[i]: position of the worker goroutine of entry i
  auth,       \* auth[i]: clientConfig.Auth built by worker i
  addr,       \* addr[i]: the address worker i passed to ssh.Dial
  mkdirs,     \* mkdirs[i]: the paths worker i called sftpClient.Mkdir on
  open,       \* open[i]: handles worker i has opened and not yet closed
  elapsed,    \* elapsed[i]: seconds worker i has spent in its select/receive
  doneCh,     \* doneCh[i]: the buffered channel done (capacity 1)
  bg,         \* bg[i]: position of the background wait/copy goroutine
  signalled,  \* signalled[i]: session.Signal(SIGTERM) was sent
  werr,       \* werr[i]: cmdErr / uploadErr / downloadError of worker i
  logged,     \* logged[i]: records worker i passed to cmdLogger.LogX
  written,    \* written[i]: records worker i passed to output.OutputX
  warned,     \* warned[i]: worker i printed a warning to standard error
  fileSize,   \* UploadFiles: fi.Size() of the local source file
  xfer,       \* xfer[i]: the file transfer worker i is running
  steps,      \* steps[i]: what is left of worker i's directory traversal
  rfs,        \* rfs[h]: the file system of remote host h
  lfs,        \* the local file system
  sql,        \* sql.ExecuteQuery: its position, its context and its rows
  clock,      \* time.Now(): the day and the millisecond of the day
  tty,        \* the text the remote command prints on its standard output
  logfs,      \* the tree below config.CommandLogPath
  lastCleanup \* Logger.lastCleanupTime

vars == <<config, hosts, mainpc, wg, pc, auth, addr, mkdirs, open, elapsed, doneCh, bg,
          signalled, werr, logged, written, warned, fileSize, xfer, steps,
          rfs, lfs, sql, clock, tty, logfs, lastCleanup>>

\* Groups of variables the operations leave alone.
callVars == <<config, hosts, mainpc, wg, fileSize, sql, clock, tty>>
raceVars == <<elapsed, doneCh, bg, signalled, werr>>
sinkVars == <<logged, written, warned, logfs, lastCleanup>>
fsVars == <<rfs, lfs>>

Active == 1..Len(hosts)

\* ------------------------------------------------------------ host entries
\* strings.Split(host, ":"): the fields between the colons.
RECURSIVE Split(_)
Split(s) ==
  IF \A k \in 1..Len(s) : s[k] # ":" THEN <<s>>
  ELSE LET c == CHOOSE k \in 1..Len(s) :
                  s[k] = ":" /\ \A m \in 1..(k - 1) : s[m] # ":"
       IN <<SubSeq(s, 1, c - 1)>> \o Split(SubSeq(s, c + 1, Len(s)))

DigitChars == <<"0", "1", "2", "3", "4", "5", "6", "7", "8", "9">>
IsDigit(c) == \E k \in 1..Len(DigitChars) : DigitChars[k] = c
DigitValue(c) == (CHOOSE k \in 1..Len(DigitChars) : DigitChars[k] = c) - 1

\* The number a sequence of decimal digits denotes.
RECURSIVE Decimal(_)
Decimal(ds) ==
  IF ds = <<>> THEN 0
  ELSE Decimal(SubSeq(ds, 1, Len(ds) - 1)) * Len(DigitChars) + DigitValue(ds[Len(ds)])

\* strconv.Atoi: an optional sign and at least one decimal digit.
Atoi(s) ==
  LET signed == s # <<>> /\ Head(s) \in {"+", "-"}
      body == IF signed THEN Tail(s) ELSE s
      ok == body # <<>> /\ \A k \in 1..Len(body) : IsDigit(body[k])
  IN [ok |-> ok,
      n |-> IF ~ok THEN 0
            ELSE IF signed /\ Head(s) = "-" THEN 0 - Decimal(body)
            ELSE Decimal(body)]

\* fmt.Sprintf("%d", n)
RECURSIVE Itoa(_)
Itoa(n) ==
  IF n < 0 THEN <<"-">> \o Itoa(0 - n)
  ELSE IF n < Len(DigitChars) THEN <<DigitChars[n + 1]>>
  ELSE Itoa(n \div Len(DigitChars)) \o <<DigitChars[(n % Len(DigitChars)) + 1]>>

\* hostPort := strings.Split(host, ":"); hostname := hostPort[0]
hostname(i) == Split(hosts[i])[1]

\* port with the host's own port never read.
portIgnored(i) == config.Port

\* port := config.Port; if len(hostPort) > 1 { p, err := strconv.Atoi(
\* hostPort[1]); if err == nil { port = p } }
port(i) ==
  LET hostPort == Split(hosts[i])
  IN IF Len(hostPort) > 1 /\ Atoi(hostPort[2]).ok
       THEN Atoi(hostPort[2]).n ELSE config.Port

\* addr := fmt.Sprintf("%s:%d", hostname, port)
DialAddr(i) == hostname(i) \o <<":">> \o Itoa(port(i))

\* ------------------------------------------------------------ file systems
\* A node of a file system: nothing, a directory, or a file with its bytes;
\* mode is the permission set by Chmod, 0 while none was set.
Absent == [kind |-> "none", data |-> <<>>, mode |-> 0]
Dir == [kind |-> "dir", data |-> <<>>, mode |-> 0]
File(d) == [kind |-> "file", data |-> d, mode |-> 0]

\* A path and its ancestors.
Prefixes(p) == { SubSeq(p, 1, n) : n \in 1..Len(p) }

\* filepath.Base, filepath.Dir and filepath.Join on segment sequences.
Base(p) == p[Len(p)]
Parent(p) == SubSeq(p, 1, Len(p) - 1)
Join(p, name) == Append(p, name)

\* The remote paths and the local paths of the model.
RPaths == { <<"d">>, <<"d", "f1">>, <<"d", "s">>, <<"d", "s", "f2">>,
            <<"up">>, <<"up", "f">>, <<"up", "n">>, <<"up", "n", "f">> }
LPaths == { <<"src">>, <<"src", "f">>, <<"dl">>, <<"dl", "f">>, <<"dl", "f1">>,
            <<"dl", "d">>, <<"dl", "d", "f1">>, <<"dl", "d", "s">>,
            <<"dl", "d", "s", "f2">> }

\* What host h holds before the invocation: the tree /d with the files f1
\* and s/f2, different on every host.
RemoteTree(h) ==
  [p \in RPaths |->
     CASE p = <<"d">> -> Dir
       [] p = <<"d", "s">> -> Dir
       [] p = <<"d", "f1">> -> File(IF h = <<"a">> THEN <<1, 2>> ELSE <<3>>)
       [] p = <<"d", "s", "f2">> -> File(IF h = <<"a">> THEN <<2>> ELSE <<3, 1>>)
       [] OTHER -> Absent]

\* The local disk before the invocation: the source directory, holding the
\* file to upload when src is a file node.
LocalDisk(src) ==
  [p \in LPaths |->
     CASE p = <<"src">> -> Dir
       [] p = <<"src", "f">> -> src
       [] OTHER -> Absent]

Max(a, b) == IF a >= b THEN a ELSE b

\* WriteAt with the offset ignored: every chunk lands at the start.
WriteAtStart(data, off, chunk) ==
  [k \in 1..Max(Len(data), Len(chunk)) |->
     IF k <= Len(chunk) THEN chunk[k] ELSE data[k]]

\* The bytes a write of chunk at offset off leaves in a file holding data
\* (a gap between the end of the file and off reads as zero bytes).
WriteAt(data, off, chunk) ==
  [k \in 1..Max(Len(data), off + Len(chunk)) |->
     IF k > off /\ k <= off + Len(chunk) THEN chunk[k - off]
     ELSE IF k <= Len(data) THEN data[k] ELSE 0]

\* Bytes one Read call returns.
ChunkLen == 1
ReadAt(data, off) ==
  SubSeq(data, off + 1, IF off + ChunkLen <= Len(data) THEN off + ChunkLen
                        ELSE Len(data))

\* crypto/md5 over the bytes written to the hash, and its "%x" rendering:
\* the digest is a function of the byte sequence alone.
RECURSIVE Digest(_)
Digest(d) ==
  IF d = <<>> THEN 7 ELSE (Digest(SubSeq(d, 1, Len(d) - 1)) * 31 + d[Len(d)]) % 251
Hex(n) == <<n \div 16, n % 16>>
Md5Sum(d) == Hex(Digest(d))
NoMD5 == <<>>

\* ------------------------------------------------------------ invocations
Ops == {"cmd", "upload", "download"}
Timeouts == {0, MaxTimeout}

\* -key / -password: unset ("") or set.
AuthSettings ==
  { [Key |-> "k", Password |-> ""], [Key |-> "", Password |-> "p"],
    [Key |-> "k", Password |-> "p"], [Key |-> "", Password |-> ""] }

\* The flags of one invocation: the defaults of the model, and every
\* combination of the flags an operation reads.  -remote-path names the
\* remote directory /d or the remote file /d/f1.
DefaultConfig ==
  [op |-> "cmd", Timeout |-> 0, Key |-> "", Password |-> "p",
   JSONOutput |-> TRUE, RealTimeOutput |-> FALSE, User |-> "root", Port |-> 22,
   ExecUser |-> "", Cmd |-> <<"l", "s">>,
   UploadFile |-> <<"src", "f">>, UploadDir |-> <<"up">>,
   UploadPermission |-> 420,
   RemotePath |-> <<"d", "f1">>, LocalPath |-> <<"dl">>,
   EnableCommandLog |-> FALSE, LogRetention |-> 1,
   DBType |-> "", DBHost |-> "", DBUser |-> "", SQL |-> ""]

Flags(o, t, a, j) ==
  [DefaultConfig EXCEPT !.op = o, !.Timeout = t, !.Key = a.Key,
                        !.Password = a.Password, !.JSONOutput = j]

CmdConfigs ==
  { [Flags("cmd", t, a, j) EXCEPT !.RealTimeOutput = r] :
      t \in Timeouts, a \in AuthSettings, j \in BOOLEAN, r \in BOOLEAN }
UploadConfigs ==
  { [Flags("upload", t, a, j) EXCEPT !.UploadPermission = m] :
      t \in Timeouts, a \in AuthSettings, j \in BOOLEAN, m \in {0, 420} }
  \cup { [Flags("upload", t, a, TRUE)
            EXCEPT !.UploadPermission = 0, !.UploadDir = <<"up", "n">>] :
            t \in Timeouts, a \in AuthSettings }
DownloadConfigs ==
  { [Flags("download", t, a, j) EXCEPT !.RemotePath = rp] :
      t \in Timeouts, a \in AuthSettings, j \in BOOLEAN,
      rp \in {<<"d">>, <<"d", "f1">>} }
Configs == CmdConfigs \cup UploadConfigs \cup DownloadConfigs

\* remoteFile := remoteDir + fileName
RemoteFile == Join(config.UploadDir, Base(config.UploadFile))

\* ------------------------------------------------------ the command sent
\* A command is the sequence of its characters.
\* escapeCommand with the replacement left out.
escapeNothing(cmd) == cmd

\* escapeCommand: strings.ReplaceAll(cmd, "'", "'\\''")
RECURSIVE escapeCommand(_)
escapeCommand(cmd) ==
  IF cmd = <<>> THEN <<>>
  ELSE (IF Head(cmd) = "'" THEN <<"'", "\\", "'", "'">> ELSE <<Head(cmd)>>)
         \o escapeCommand(Tail(cmd))

\* fmt.Sprintf("su - %s -c '%s'", config.ExecUser, escapeCommand(config.Cmd))
SuCommand(user, cmd) ==
  <<"su - ", user, " -c ", "'">> \o escapeCommand(cmd) \o <<"'">>

\* if config.ExecUser != "" && config.ExecUser != config.User { ... }
SwitchesUser == config.ExecUser # "" /\ config.ExecUser # config.User
cmdToExecute ==
  IF SwitchesUser THEN SuCommand(config.ExecUser, config.Cmd) ELSE config.Cmd
execUser == IF SwitchesUser THEN config.ExecUser ELSE config.User

\* ----------------------------------------------------------- result records
\* Failed with a timeout not counted as an error.
FailedUnlessTimeout(e) == e # NoErr /\ e.kind # "timeout"

\* if err != nil
Failed(e) == e # NoErr

\* ------------------------------------------------------- captured output
\* A text is the sequence of its characters; "ESC" is the byte 0x1b.
Digits == {"0", "1", "3"}
Letters == {"a", "b", "e", "m", "u", "G"}
HexDigits == Digits \cup {"a", "b", "e"}

\* [0-9;]*[a-zA-Z] from position p of s: the position of the letter that
\* ends it, or 0.  The parameter characters are no letters, so the longest
\* run of them is the only one a letter can follow.
RECURSIVE FinalAt(_, _)
FinalAt(s, p) ==
  IF p > Len(s) THEN 0
  ELSE IF s[p] \in Digits \cup {";"} THEN FinalAt(s, p + 1)
  ELSE IF s[p] \in Letters THEN p
  ELSE 0

\* The end of the match of ansiRegex that starts at position p, or 0:
\* \x1b\[[0-9;]*[a-zA-Z], else \[[0-9;]*[a-zA-Z]; the third alternative
\* \[[0-9]+G only matches where the second already has.
MatchEnd(s, p) ==
  IF s[p] = "ESC" /\ p < Len(s) /\ s[p + 1] = "[" /\ FinalAt(s, p + 2) > 0
    THEN FinalAt(s, p + 2)
  ELSE IF s[p] = "[" THEN FinalAt(s, p + 1)
  ELSE 0

\* ReplaceAllString(s, "") from position p on: the leftmost match is cut out
\* and the scan goes on behind it.
RECURSIVE ReplaceFrom(_, _)
ReplaceFrom(s, p) ==
  IF p > Len(s) THEN <<>>
  ELSE IF MatchEnd(s, p) > 0 THEN ReplaceFrom(s, MatchEnd(s, p) + 1)
  ELSE <<s[p]>> \o ReplaceFrom(s, p + 1)

\* cleaned := ansiRegex.ReplaceAllString(s, "")
CleanAnsiSequences(s) == ReplaceFrom(s, 1)

\* string(rune(i)) of the four hex digits of an escape.
Rune(h) ==
  IF h = <<"0", "0", "1", "b">> THEN "ESC"
  ELSE IF h = <<"0", "0", "3", "e">> THEN ">"
  ELSE <<"U+">> \o h

\* unicodeEscapeRegex.ReplaceAllStringFunc: every \uXXXX becomes its rune.
RECURSIVE UnescapeFrom(_, _)
UnescapeFrom(s, p) ==
  IF p > Len(s) THEN <<>>
  ELSE IF /\ s[p] = "\\" /\ p + 5 <= Len(s) /\ s[p + 1] = "u"
          /\ \A k \in (p + 2)..(p + 5) : s[k] \in HexDigits
    THEN <<Rune(SubSeq(s, p + 2, p + 5))>> \o UnescapeFrom(s, p + 6)
  ELSE <<s[p]>> \o UnescapeFrom(s, p + 1)
UnescapeUnicode(s) == UnescapeFrom(s, 1)

\* CleanAndUnescapeText
CleanAndUnescapeText(s) == UnescapeUnicode(CleanAnsiSequences(s))

\* The record a worker builds for entry i; the paths are the ones of the
\* operation's request.
Record(i, status, e) ==
  [host |-> hosts[i], type |-> config.op, status |-> status, err |-> e,
   remote |-> CASE config.op = "upload" -> RemoteFile
                [] config.op = "download" -> config.RemotePath
                [] OTHER -> <<>>,
   local |-> CASE config.op = "upload" -> config.UploadFile
               [] config.op = "download" -> config.LocalPath
               [] OTHER -> <<>>,
   size |-> 0, md5 |-> NoMD5, stdout |-> <<>>,
   actualCmd |-> IF pc[i] \in {"start", "report"} /\ config.op = "cmd"
                   THEN cmdToExecute ELSE <<>>,
   execUser |-> CASE config.op # "cmd" -> ""
                  [] pc[i] \in {"start", "report"} -> execUser
                  [] pc[i] \in {"dial", "session"} -> config.User
                  [] OTHER -> ""]

\* What output.OutputX prints of a record: OutputDownloadResult has no md5
\* parameter.
Printed(rec) == [rec EXCEPT !.md5 = NoMD5]

\* ------------------------------------------------------------- the logger
\* The tree below config.CommandLogPath is a function from the paths that
\* exist, sequences of names with <<>> for the log directory itself, to
\* what they are.  A name is the sequence of its characters.
EmptyLog == (<<>> :> Dir)

\* The civil date of day n, counted from 2024-12-30; the days of the model
\* stay within the five weeks after it.
Civil(n) ==
  IF n < 2 THEN [y |-> 2024, m |-> 12, d |-> 30 + n]
           ELSE [y |-> 2025, m |-> 1, d |-> n - 1]

\* A number printed in w digits: the 2006, 01, 02, 15, 04, 05 and 000 of a
\* time layout.
Pad(n, w) == [k \in 1..(w - Len(Itoa(n))) |-> "0"] \o Itoa(n)

\* now.Format("2006-01-02")
FormatDate(n) ==
  Pad(Civil(n).y, 4) \o <<"-">> \o Pad(Civil(n).m, 2) \o <<"-">> \o Pad(Civil(n).d, 2)

\* now.Format("150405.000"), ms being the millisecond of the day.
FormatTime(ms) ==
  Pad(ms \div 3600000, 2) \o Pad((ms \div 60000) % 60, 2)
    \o Pad((ms \div 1000) % 60, 2) \o <<".">> \o Pad(ms % 1000, 3)

\* The prefix of the log file of a record: command_, sql_, upload_, download_.
LogPrefix(type) ==
  CASE type = "cmd" -> <<"c", "o", "m", "m", "a", "n", "d", "_">>
    [] type = "sql" -> <<"s", "q", "l", "_">>
    [] type = "upload" -> <<"u", "p", "l", "o", "a", "d", "_">>
    [] type = "download" -> <<"d", "o", "w", "n", "l", "o", "a", "d", "_">>

\* fmt.Sprintf("command_%s.log", now.Format("150405.000"))
LogFileName(type, ms) ==
  LogPrefix(type) \o FormatTime(ms) \o <<".", "l", "o", "g">>

\* The log file of LogCommand, LogSQL, LogUpload, LogDownload called by
\* worker i: nothing when logging is off; otherwise os.MkdirAll of the
\* directory of the day and os.Create of the file named after the time, which
\* holds the record.  (The log directory is taken to be writable.)
LogWrite(fs, i, rec) ==
  IF ~config.EnableCommandLog THEN fs
  ELSE LET dateDir == <<FormatDate(clock.day)>>
           logFilePath == dateDir \o <<LogFileName(rec.type, clock.ms)>>
       IN (logFilePath :> File(rec)) @@ (dateDir :> Dir) @@ fs

\* The characters of the names below the log directory, in the order of
\* their bytes.
Alphabet ==
  <<"-", ".", "0", "1", "2", "3", "4", "5", "6", "7", "8", "9", "_",
    "a", "c", "d", "g", "i", "l", "m", "n", "o", "p", "q", "s", "u", "w">>
CharCode(c) == CHOOSE k \in 1..Len(Alphabet) : Alphabet[k] = c

\* a < b on strings: byte by byte, a proper prefix being smaller.
RECURSIVE StrLess(_, _)
StrLess(a, b) ==
  IF b = <<>> THEN FALSE
  ELSE IF a = <<>> THEN TRUE
  ELSE IF Head(a) = Head(b) THEN StrLess(Tail(a), Tail(b))
  ELSE CharCode(Head(a)) < CharCode(Head(b))

\* strings.Count(s, c)
Count(s, c) == Cardinality({ k \in 1..Len(s) : s[k] = c })

\* The entries of directory p, and everything below p.
DirEntries(fs, p) ==
  { q \in DOMAIN fs : Len(q) = Len(p) + 1 /\ SubSeq(q, 1, Len(p)) = p }
Below(fs, p) ==
  { q \in DOMAIN fs : Len(q) >= Len(p) /\ SubSeq(q, 1, Len(p)) = p }

\* readDirNames(path): the entries of the directory, sorted by name.
RECURSIVE Sorted(_)
Sorted(S) ==
  IF S = {} THEN <<>>
  ELSE LET first == CHOOSE q \in S :
                      \A r \in S \ {q} : StrLess(Base(q), Base(r))
       IN <<first>> \o Sorted(S \ {first})

\* os.RemoveAll(path)
RemoveAll(fs, p) == [q \in DOMAIN fs \ Below(fs, p) |-> fs[q]]

\* cutoffDateStr: time.Now().AddDate(0, 0, -l.config.LogRetention) formatted
\* as a date.
cutoffDateStr == FormatDate(clock.day - config.LogRetention)

\* The function CleanupExpiredLogs gives to filepath.Walk: an error of the
\* walk is returned as it is; the log directory itself is skipped; a
\* directory whose name has ten characters, two of them "-", and is smaller
\* than cutoffDateStr is removed with all it holds.
walkFn(fs, p, err) ==
  IF Failed(err) THEN [fs |-> fs, err |-> err]
  ELSE IF p = <<>> THEN [fs |-> fs, err |-> NoErr]
  ELSE IF fs[p].kind = "dir" /\ Len(Base(p)) = 10 /\ Count(Base(p), "-") = 2
            /\ StrLess(Base(p), cutoffDateStr)
    THEN [fs |-> RemoveAll(fs, p), err |-> NoErr]
    ELSE [fs |-> fs, err |-> NoErr]

\* filepath.Walk: for a directory the names are read first and walkFn is
\* called next; then each name is looked up with Lstat, walkFn getting the
\* error when that fails, and walked; the first error ends the walk.
RECURSIVE walk(_, _)
RECURSIVE walkNames(_, _)
walk(fs, p) ==
  IF fs[p].kind # "dir" THEN walkFn(fs, p, NoErr)
  ELSE LET names == Sorted(DirEntries(fs, p))
           res == walkFn(fs, p, NoErr)
       IN IF Failed(res.err) THEN res ELSE walkNames(res.fs, names)
walkNames(fs, names) ==
  IF names = <<>> THEN [fs |-> fs, err |-> NoErr]
  ELSE IF Head(names) \notin DOMAIN fs
    THEN LET res == walkFn(fs, Head(names), Err("lstat"))
         IN IF Failed(res.err) THEN res ELSE walkNames(res.fs, Tail(names))
  ELSE LET res == walk(fs, Head(names))
       IN IF Failed(res.err) THEN res ELSE walkNames(res.fs, Tail(names))

\* CleanupExpiredLogs: nothing unless logging is on and the retention is
\* positive; otherwise the walk over config.CommandLogPath, whose error is
\* printed.
CleanupExpiredLogs(fs) ==
  IF ~config.EnableCommandLog \/ config.LogRetention <= 0
    THEN [fs |-> fs, err |-> NoErr]
    ELSE walk(fs, <<>>)

\* NewLogger(config): os.MkdirAll(config.CommandLogPath) when logging is on,
\* then logger.CleanupExpiredLogs().
NewLogger ==
  /\ mainpc = "newlogger"
  /\ LET res == CleanupExpiredLogs(logfs)
     IN /\ logfs' = res.fs
        /\ warned' = [warned EXCEPT ![1] = Failed(res.err)]
  /\ lastCleanup' = clock
  /\ mainpc' = "start"
  /\ UNCHANGED <<config, hosts, wg, fileSize, sql, clock, tty, pc, auth, addr, mkdirs,
                 open, raceVars, logged, written, xfer, steps, fsVars>>

\* time.Since(t) in milliseconds.
Since(t) == (clock.day - t.day) * 86400000 + (clock.ms - t.ms)

\* cleanupInterval := time.Duration(l.config.LogRetention) * 24 * time.Hour;
\* time.Since(l.lastCleanupTime) > cleanupInterval
CleanupDue == Since(lastCleanup) > config.LogRetention * 86400000

\* The whole of LogCommand, LogSQL, LogUpload or LogDownload: the log file,
\* then CleanupExpiredLogs and a new lastCleanupTime when the cleanup is due.
\* fs is the log tree and last the lastCleanupTime it leaves.
LogX(fs, i, rec) ==
  IF ~config.EnableCommandLog THEN [fs |-> fs, last |-> lastCleanup]
  ELSE IF CleanupDue
    THEN [fs |-> CleanupExpiredLogs(LogWrite(fs, i, rec)).fs, last |-> clock]
    ELSE [fs |-> LogWrite(fs, i, rec), last |-> lastCleanup]

\* cmdLogger.LogX(result) followed by output.OutputX(..., logWriter); toWriter
\* is false on the paths that skip the output call.
SinkAs(i, rec, shown, toWriter) ==
  /\ logfs' = LogX(logfs, i, rec).fs
  /\ lastCleanup' = LogX(logfs, i, rec).last
  /\ logged' = [logged EXCEPT ![i] = Append(@, rec)]
  /\ written' = [written EXCEPT ![i] =
                   IF toWriter THEN Append(@, shown) ELSE @]
Sink(i, rec, toWriter) == SinkAs(i, rec, Printed(rec), toWriter)

\* A record emitted on a path that prints no warning.
Emit(i, rec, toWriter) ==
  /\ Sink(i, rec, toWriter)
  /\ UNCHANGED warned

\* FailWith with the record forgotten: a bare return on a failed stage.
FailWithoutRecord(i, e) ==
  /\ pc' = [pc EXCEPT ![i] = "exit"]
  /\ UNCHANGED sinkVars

\* FailWith with the return forgotten: the record is emitted and the worker
\* stays at the stage that failed.
FailWithRetry(i, e) ==
  /\ Emit(i, Record(i, "error", e), TRUE)
  /\ UNCHANGED pc

\* A stage failed: build the error record, hand it to both sinks, return.
FailWith(i, e) ==
  /\ Emit(i, Record(i, "error", e), TRUE)
  /\ pc' = [pc EXCEPT ![i] = "exit"]

\* ------------------------------------------------------- timeout race
\* TimerArmed with the guard written as >= 0.
TimerArmedAlways == config.Timeout >= 0

\* time.After is only reached when config.Timeout > 0.
TimerArmed == config.Timeout > 0

\* The timer channel of worker i has fired.
TimerExpired(i) == TimerArmed /\ elapsed[i] >= config.Timeout

\* fmt.Errorf("... %d ...", config.Timeout)
TimeoutError == [kind |-> "timeout", secs |-> config.Timeout]

\* ------------------------------------------------------------- the caller
\* for _, host := range hosts { wg.Add(1); go func(host string) {...}(host) }
Spawn ==
  /\ wg' = Len(hosts)
  /\ pc' = [i \in Workers |-> IF i \in Active THEN "auth" ELSE "idle"]
  /\ mainpc' = "waiting"

\* UploadFiles: fi, err := os.Stat(localFile); if err != nil { return }
LocalFileMissing == config.op = "upload" /\ lfs[config.UploadFile].kind # "file"

Call ==
  /\ mainpc = "start"
  /\ IF LocalFileMissing
       THEN /\ mainpc' = "returned"
            /\ UNCHANGED <<wg, pc, fileSize>>
       ELSE /\ Spawn
            /\ fileSize' = IF config.op = "upload"
                             THEN Len(lfs[config.UploadFile].data) ELSE 0
  /\ UNCHANGED <<config, hosts, sql, clock, tty, auth, addr, mkdirs, open, raceVars, sinkVars, xfer, steps,
                 fsVars>>

\* WgWaitReturns with one wg.Add(1) missing.
WgWaitReturnsEarly == wg <= 1

\* wg.Wait() returns once the counter is zero.
WgWaitReturns == wg = 0

Return ==
  /\ mainpc = "waiting"
  /\ WgWaitReturns
  /\ mainpc' = "returned"
  /\ UNCHANGED <<config, hosts, sql, clock, tty, wg, fileSize, pc, auth, addr, mkdirs, open, raceVars,
                 sinkVars, xfer, steps, fsVars>>

\* ---------------------------------------------------- stages of every worker
\* KeyAuth with the password appended as a fallback method.
KeyAuthWithPassword ==
  IF config.Password # "" THEN <<"publickey", "password">> ELSE <<"publickey">>

\* clientConfig.Auth = append(clientConfig.Auth, ssh.PublicKeys(signer))
KeyAuth == <<"publickey">>

\* if config.Key != "" { ReadFile; ParsePrivateKey; PublicKeys }
\* else if config.Password != "" { Password } else { error }
Authenticate(i) ==
  /\ pc[i] = "auth"
  /\ IF config.Key # ""
       THEN \E keyfile \in {"ok", "unreadable", "unparsable"} :
              IF keyfile = "ok"
                THEN /\ auth' = [auth EXCEPT ![i] = KeyAuth]
                     /\ pc' = [pc EXCEPT ![i] = "dial"]
                     /\ UNCHANGED sinkVars
                ELSE /\ FailWith(i, Err(keyfile))
                     /\ UNCHANGED auth
       ELSE IF config.Password # ""
         THEN /\ auth' = [auth EXCEPT ![i] = <<"password">>]
              /\ pc' = [pc EXCEPT ![i] = "dial"]
              /\ UNCHANGED sinkVars
         ELSE /\ FailWith(i, Err("noauth"))
              /\ UNCHANGED auth
  /\ UNCHANGED <<callVars, addr, mkdirs, open, raceVars, xfer, steps, fsVars>>

\* addr := fmt.Sprintf("%s:%d", hostname, port);
\* client, err := ssh.Dial("tcp", addr, clientConfig); defer client.Close()
Dial(i) ==
  /\ pc[i] = "dial"
  /\ addr' = [addr EXCEPT ![i] = DialAddr(i)]
  /\ \/ /\ open' = [open EXCEPT ![i] = @ \cup {"client"}]
        /\ pc' = [pc EXCEPT ![i] = "session"]
        /\ UNCHANGED sinkVars
     \/ /\ FailWith(i, Err("dial"))
        /\ UNCHANGED open
  /\ UNCHANGED <<callVars, auth, mkdirs, raceVars, xfer, steps, fsVars>>

\* DeferredClose with only the SSH client closed.
DeferredCloseClientOnly(i) == {"client"}

\* The handles the deferred Close calls of the worker function close on
\* return: client, session or sftpClient, and in UploadFiles the two files.
DeferredClose(i) ==
  {"client", "session", "sftp"} \cup
    (IF config.op = "upload" THEN {"localFile", "remoteFile"} ELSE {})

\* return: the deferred Close calls run, then the deferred wg.Done().
Exit(i) ==
  /\ pc[i] = "exit"
  /\ open' = [open EXCEPT ![i] = @ \ DeferredClose(i)]
  /\ wg' = wg - 1
  /\ pc' = [pc EXCEPT ![i] = "finished"]
  /\ UNCHANGED <<config, hosts, sql, clock, tty, mainpc, fileSize, auth, addr, mkdirs, raceVars, sinkVars,
                 xfer, steps, fsVars>>

\* NewTimer with one timer kept running from select to select.
SameTimer(e) == e

\* time.After(...) is called in the select itself: every select has a timer
\* of its own that starts when the select does, and the timer of a select
\* that has returned is never looked at again.
NewTimer(e) == 0

\* One second passes for a worker that is blocked in its select or receive.
\* A worker blocked in a select is resumed by the first channel that becomes
\* ready, so its clock only matters while done is empty and the timer has
\* not fired.
Tick(i) ==
  /\ pc[i] = "wait"
  /\ doneCh[i] = <<>>
  /\ ~TimerExpired(i)
  /\ elapsed[i] < MaxElapsed
  /\ elapsed' = [elapsed EXCEPT ![i] = @ + 1]
  /\ UNCHANGED <<callVars, pc, auth, addr, mkdirs, open, doneCh, bg, signalled, werr,
                 sinkVars, xfer, steps, fsVars>>

\* Where a worker continues after its select: downloadFile returns to its
\* caller, the other two operations build their record.
AfterWait == IF config.op = "download" THEN "dfret" ELSE "report"

\* case err = <-done   (and err = <-done when no timer is armed)
ReceiveDone(i) ==
  /\ pc[i] = "wait"
  /\ doneCh[i] # <<>>
  /\ ~TimerExpired(i)
  /\ werr' = [werr EXCEPT ![i] = Head(doneCh[i])]
  /\ doneCh' = [doneCh EXCEPT ![i] = Tail(@)]
  /\ elapsed' = [elapsed EXCEPT ![i] = NewTimer(@)]
  /\ pc' = [pc EXCEPT ![i] = AfterWait]
  /\ UNCHANGED <<callVars, auth, addr, mkdirs, open, bg, signalled, sinkVars, xfer, steps,
                 fsVars>>

\* TimeoutSignals with the session.Signal call left out.
TimeoutSignalsNever == FALSE

\* What the timeout branch does besides setting the error: the command
\* worker signals the session, downloadFile closes the remote file, the
\* upload worker does nothing.
TimeoutSignals == config.op = "cmd"
TimeoutCloses == IF config.op = "download" THEN {"remoteFile"} ELSE {}

\* case <-time.After(time.Duration(config.Timeout) * time.Second)
ReceiveTimeout(i) ==
  /\ pc[i] = "wait"
  /\ TimerExpired(i)
  /\ werr' = [werr EXCEPT ![i] = TimeoutError]
  /\ signalled' = [signalled EXCEPT ![i] = TimeoutSignals]
  /\ open' = [open EXCEPT ![i] = @ \ TimeoutCloses]
  /\ elapsed' = [elapsed EXCEPT ![i] = 0]
  /\ pc' = [pc EXCEPT ![i] = AfterWait]
  /\ UNCHANGED <<callVars, auth, addr, mkdirs, doneCh, bg, sinkVars, xfer, steps, fsVars>>

\* ------------------------------------------------------- ExecuteCommands
\* session, err := client.NewSession(); defer session.Close()
NewSession(i) ==
  /\ pc[i] = "session"
  /\ config.op = "cmd"
  /\ \/ /\ open' = [open EXCEPT ![i] = @ \cup {"session"}]
        /\ pc' = [pc EXCEPT ![i] = "start"]
        /\ UNCHANGED sinkVars
     \/ /\ FailWith(i, Err("session"))
        /\ UNCHANGED open
  /\ UNCHANGED <<callVars, auth, addr, mkdirs, raceVars, xfer, steps, fsVars>>

\* err = session.Start(cmdToExecute); go func() { done <- session.Wait() }()
StartCommand(i) ==
  /\ pc[i] = "start"
  /\ \/ /\ bg' = [bg EXCEPT ![i] = "running"]
        /\ pc' = [pc EXCEPT ![i] = "wait"]
        /\ UNCHANGED sinkVars
     \/ /\ FailWith(i, Err("start"))
        /\ UNCHANGED bg
  /\ UNCHANGED <<callVars, auth, addr, mkdirs, open, elapsed, doneCh, signalled, werr,
                 xfer, steps, fsVars>>

\* A goroutine that stays where it was after its send, and sends again.
AfterSendAgain(b) == b

\* done <- ... is the last statement of the background goroutine: after its
\* one send the goroutine is gone.
AfterSend(b) == "exited"

\* The remote command ends (exit status zero or not): session.Wait() returns
\* and the goroutine sends its result on done.  Nothing forces this to happen.
CommandEnds(i) ==
  /\ bg[i] = "running"
  /\ \E e \in {NoErr, Err("exit")} :
       doneCh' = [doneCh EXCEPT ![i] = Append(@, e)]
  /\ bg' = [bg EXCEPT ![i] = AfterSend(@)]
  /\ UNCHANGED <<callVars, pc, auth, addr, mkdirs, open, elapsed, signalled, werr,
                 sinkVars, xfer, steps, fsVars>>

\* stdout.String() when the worker builds its record: everything the command
\* printed once session.Wait() has returned; after the timeout branch the
\* session still copies into the buffer, and the worker reads what is there.
Captured(i) ==
  IF bg[i] = "running" THEN { SubSeq(tty, 1, n) : n \in 0..Len(tty) } ELSE {tty}

\* The Stdout that OutputCmdResultComplete puts on the writer: the string it
\* was handed in the JSON document, CleanAnsiSequences of it in the text.
ShownStdout(out) == IF config.JSONOutput THEN out ELSE CleanAnsiSequences(out)

\* The final record of a command; in real-time text mode the summary goes to
\* standard output with fmt.Printf and OutputCmdResultComplete is skipped.
CmdReport(i) ==
  /\ pc[i] = "report"
  /\ config.op = "cmd"
  /\ \E out \in Captured(i) :
       LET rec == Record(i, IF Failed(werr[i]) THEN "error" ELSE "success", werr[i])
       IN SinkAs(i, [rec EXCEPT !.stdout = CleanAndUnescapeText(out)],
                 [rec EXCEPT !.stdout = ShownStdout(out)],
                 ~(~config.JSONOutput /\ config.RealTimeOutput))
  /\ UNCHANGED warned
  /\ pc' = [pc EXCEPT ![i] = "exit"]
  /\ UNCHANGED <<callVars, auth, addr, mkdirs, open, raceVars, xfer, steps, fsVars>>

\* ------------------------------------------------------------ UploadFiles
\* sftpClient, err := sftp.NewClient(client); defer sftpClient.Close()
NewSftpClient(i) ==
  /\ pc[i] = "session"
  /\ config.op # "cmd"
  /\ \/ /\ open' = [open EXCEPT ![i] = @ \cup {"sftp"}]
        /\ pc' = [pc EXCEPT ![i] = IF config.op = "upload" THEN "mkdir" ELSE "stat"]
        /\ UNCHANGED sinkVars
     \/ /\ FailWith(i, Err("sftp"))
        /\ UNCHANGED open
  /\ UNCHANGED <<callVars, auth, addr, mkdirs, raceVars, xfer, steps, fsVars>>

\* sftpClient.Mkdir(p): the parent must be a directory and p must not exist;
\* allowed is the set of paths the server lets this user create.  calls is
\* the list of the paths Mkdir was called on.
Mkdir(fs, p, allowed) ==
  IF p \in allowed /\ fs[p].kind = "none"
       /\ (Len(p) = 1 \/ fs[Parent(p)].kind = "dir")
    THEN [fs |-> [fs EXCEPT ![p] = Dir], err |-> NoErr, calls |-> <<p>>]
    ELSE [fs |-> fs, err |-> Err("mkdir"), calls |-> <<p>>]

\* createRemoteDir without the Stat that finds an existing path.
RECURSIVE CreateRemoteDirNoStat(_, _, _)
CreateRemoteDirNoStat(fs, p, allowed) ==
  IF Len(p) > 1
    THEN LET up == CreateRemoteDirNoStat(fs, Parent(p), allowed)
             made == Mkdir(up.fs, p, allowed)
         IN IF Failed(up.err) THEN up
            ELSE [made EXCEPT !.calls = up.calls \o made.calls]
    ELSE Mkdir(fs, p, allowed)

\* createRemoteDir: nothing to do when Stat finds the path; otherwise the
\* parent first (unless it is the root), then Mkdir of the path itself.
RECURSIVE CreateRemoteDir(_, _, _)
CreateRemoteDir(fs, p, allowed) ==
  IF fs[p].kind # "none" THEN [fs |-> fs, err |-> NoErr, calls |-> <<>>]
  ELSE IF Len(p) > 1
    THEN LET up == CreateRemoteDir(fs, Parent(p), allowed)
             made == Mkdir(up.fs, p, allowed)
         IN IF Failed(up.err) THEN up
            ELSE [made EXCEPT !.calls = up.calls \o made.calls]
    ELSE Mkdir(fs, p, allowed)

\* err = createRemoteDir(sftpClient, remoteDir)
EnsureRemoteDir(i) ==
  /\ pc[i] = "mkdir"
  /\ \E allowed \in SUBSET Prefixes(config.UploadDir) :
       LET res == CreateRemoteDir(rfs[hostname(i)], config.UploadDir, allowed)
       IN /\ rfs' = [rfs EXCEPT ![hostname(i)] = res.fs]
          /\ mkdirs' = [mkdirs EXCEPT ![i] = res.calls]
          /\ IF Failed(res.err)
               THEN FailWith(i, res.err)
               ELSE /\ pc' = [pc EXCEPT ![i] = "openlocal"]
                    /\ UNCHANGED sinkVars
  /\ UNCHANGED <<callVars, auth, addr, open, raceVars, xfer, steps, lfs>>

\* localFileHandle, err := os.Open(localFile); defer localFileHandle.Close()
OpenLocal(i) ==
  /\ pc[i] = "openlocal"
  /\ \/ /\ lfs[config.UploadFile].kind = "file"
        /\ open' = [open EXCEPT ![i] = @ \cup {"localFile"}]
        /\ pc' = [pc EXCEPT ![i] = "create"]
        /\ UNCHANGED sinkVars
     \/ /\ FailWith(i, Err("openlocal"))
        /\ UNCHANGED open
  /\ UNCHANGED <<callVars, auth, addr, mkdirs, raceVars, xfer, steps, fsVars>>

NoTransfer ==
  [r |-> <<>>, l |-> <<>>, off |-> 0, buf |-> <<>>, hash |-> <<>>,
   downloaded |-> 0, size |-> 0, created |-> FALSE, linked |-> FALSE,
   inDir |-> FALSE]

\* remoteFileHandle, err := sftpClient.Create(remoteFile) (the file is
\* truncated); then go func() { _, err := io.Copy(...); done <- err }()
CreateRemote(i) ==
  /\ pc[i] = "create"
  /\ \/ /\ rfs' = [rfs EXCEPT ![hostname(i)][RemoteFile] = File(<<>>)]
        /\ open' = [open EXCEPT ![i] = @ \cup {"remoteFile"}]
        /\ xfer' = [xfer EXCEPT ![i] =
                      [NoTransfer EXCEPT !.r = RemoteFile, !.l = config.UploadFile]]
        /\ bg' = [bg EXCEPT ![i] = "copying"]
        /\ pc' = [pc EXCEPT ![i] = "wait"]
        /\ UNCHANGED sinkVars
     \/ /\ FailWith(i, Err("create"))
        /\ UNCHANGED <<rfs, open, xfer, bg>>
  /\ UNCHANGED <<callVars, auth, addr, mkdirs, elapsed, doneCh, signalled, werr, steps, lfs>>

\* The bytes the next write of io.Copy puts into the remote file.
UploadChunk(i) == ReadAt(lfs[config.UploadFile].data, xfer[i].off)

\* One round of io.Copy(remoteFileHandle, localFileHandle): read a chunk of
\* the local file and write it to the remote file at the same offset; at end
\* of file, or on an error, send the result on done.
UploadCopy(i) ==
  /\ bg[i] = "copying"
  /\ LET send(e) == /\ doneCh' = [doneCh EXCEPT ![i] = Append(@, e)]
                    /\ bg' = [bg EXCEPT ![i] = AfterSend(@)]
                    /\ UNCHANGED <<xfer, rfs>>
     IN IF ~({"localFile", "remoteFile"} \subseteq open[i])
          THEN send(Err("closed"))
        ELSE IF UploadChunk(i) = <<>>
          THEN send(NoErr)
        ELSE \/ send(Err("io"))
             \/ /\ rfs' = [rfs EXCEPT ![hostname(i)][RemoteFile] =
                             File(WriteAt(@.data, xfer[i].off, UploadChunk(i)))]
                /\ xfer' = [xfer EXCEPT ![i].off = @ + Len(UploadChunk(i))]
                /\ UNCHANGED <<doneCh, bg>>
  /\ UNCHANGED <<callVars, pc, auth, addr, mkdirs, open, elapsed, signalled, werr, sinkVars,
                 steps, lfs>>

\* UploadStatus with a failed Chmod reported as a failed upload.
UploadStatusStrict(chmodErr) == IF Failed(chmodErr) THEN "error" ELSE "success"

\* The status of the record after a copy that succeeded: the error of Chmod
\* is printed as a warning and not looked at again.
UploadStatus(chmodErr) == "success"

\* UploadSize with the file looked at again by the worker that builds the
\* record.
UploadSizeNow == Len(lfs[config.UploadFile].data)

\* fileSize := fi.Size(), read before the loop over the hosts and captured by
\* every worker closure.
UploadSize == fileSize

\* The record of an upload after the copy: the error record; or, when the
\* copy succeeded, sftpClient.Chmod(remoteFile, config.UploadPermission) if a
\* permission is configured, a warning on standard error if it fails, and
\* the success record.
UploadReport(i) ==
  /\ pc[i] = "report"
  /\ config.op = "upload"
  /\ IF Failed(werr[i])
       THEN /\ Emit(i, [Record(i, "error", werr[i]) EXCEPT !.size = UploadSize], TRUE)
            /\ UNCHANGED rfs
       ELSE \E chmodErr \in IF config.UploadPermission > 0
                               THEN {NoErr, Err("chmod")} ELSE {NoErr} :
              /\ rfs' = IF config.UploadPermission > 0 /\ ~Failed(chmodErr)
                          THEN [rfs EXCEPT ![hostname(i)][RemoteFile].mode =
                                             config.UploadPermission]
                          ELSE rfs
              /\ warned' = [warned EXCEPT ![i] = Failed(chmodErr)]
              /\ Sink(i, [Record(i, UploadStatus(chmodErr), NoErr)
                            EXCEPT !.size = UploadSize], TRUE)
  /\ pc' = [pc EXCEPT ![i] = "exit"]
  /\ UNCHANGED <<callVars, auth, addr, mkdirs, open, raceVars, xfer, steps, lfs>>

\* ---------------------------------------------------------- DownloadFiles
\* os.MkdirAll(p): p and its missing ancestors become directories; it fails
\* when a component is a file or the system refuses.
MkdirAll(fs, p, allowed) ==
  IF allowed /\ \A q \in Prefixes(p) : fs[q].kind # "file"
    THEN [fs |-> [q \in DOMAIN fs |-> IF q \in Prefixes(p) THEN Dir ELSE fs[q]],
          err |-> NoErr]
    ELSE [fs |-> fs, err |-> Err("mkdirall")]

\* sftpClient.ReadDir(p): the names in directory p, in listing order.  The
\* order is the server's: the one the directory node records, and NameOrder
\* for a directory that records none.
NameOrder == <<"f", "f1", "f2", "s">>
ReadDir(fs, p) ==
  SelectSeq(IF fs[p].data = <<>> THEN NameOrder ELSE fs[p].data,
            LAMBDA n : Join(p, n) \in DOMAIN fs /\ fs[Join(p, n)].kind # "none")

\* downloadDirectory(remotePath, localPath) as the list of what it does when
\* nothing fails: create the local directory and list the remote one, then
\* for every entry in listing order either the same for a sub-directory or
\* the transfer of a file.
RECURSIVE DirectorySteps(_, _, _)
RECURSIVE EntrySteps(_, _, _, _)
RECURSIVE EntryStepsBackwards(_, _, _, _)
\* EntrySteps ranging over the listing from its last entry to its first.
EntryStepsBackwards(fs, remotePath, localDirPath, names) ==
  IF names = <<>> THEN <<>>
  ELSE LET remoteFilePath == Join(remotePath, Head(names))
           localFilePath == Join(localDirPath, Head(names))
       IN EntryStepsBackwards(fs, remotePath, localDirPath, Tail(names))
          \o (IF fs[remoteFilePath].kind = "dir"
                THEN DirectorySteps(fs, remoteFilePath, localDirPath)
                ELSE <<[k |-> "file", r |-> remoteFilePath, l |-> localFilePath]>>)

DirectorySteps(fs, remotePath, localPath) ==
  LET localDirPath == Join(localPath, Base(remotePath))
  IN <<[k |-> "dir", r |-> remotePath, l |-> localDirPath]>>
       \o EntrySteps(fs, remotePath, localDirPath, ReadDir(fs, remotePath))
EntrySteps(fs, remotePath, localDirPath, names) ==
  IF names = <<>> THEN <<>>
  ELSE LET remoteFilePath == Join(remotePath, Head(names))
           localFilePath == Join(localDirPath, Head(names))
       IN (IF fs[remoteFilePath].kind = "dir"
             THEN DirectorySteps(fs, remoteFilePath, localDirPath)
             ELSE <<[k |-> "file", r |-> remoteFilePath, l |-> localFilePath]>>)
          \o EntrySteps(fs, remotePath, localDirPath, Tail(names))

\* remoteFileInfo, err := sftpClient.Stat(config.RemotePath);
\* err = os.MkdirAll(config.LocalPath, 0755); then the directory or the
\* single-file branch.
StatRemote(i) ==
  /\ pc[i] = "stat"
  /\ LET node == rfs[hostname(i)][config.RemotePath]
     IN \/ /\ FailWith(i, Err("stat"))
           /\ UNCHANGED <<xfer, steps, lfs>>
        \/ /\ node.kind # "none"
           /\ \E allowed \in BOOLEAN :
                LET made == MkdirAll(lfs, config.LocalPath, allowed)
                IN IF Failed(made.err)
                     THEN /\ FailWith(i, made.err)
                          /\ UNCHANGED <<xfer, steps, lfs>>
                     ELSE /\ lfs' = made.fs
                          /\ UNCHANGED sinkVars
                          /\ IF node.kind = "dir"
                               THEN /\ steps' = [steps EXCEPT ![i] =
                                        DirectorySteps(rfs[hostname(i)], config.RemotePath,
                                                       config.LocalPath)]
                                    /\ pc' = [pc EXCEPT ![i] = "walk"]
                                    /\ UNCHANGED xfer
                               ELSE /\ xfer' = [xfer EXCEPT ![i] =
                                        [NoTransfer EXCEPT
                                           !.r = config.RemotePath,
                                           !.l = Join(config.LocalPath,
                                                      Base(config.RemotePath))]]
                                    /\ pc' = [pc EXCEPT ![i] = "dfopen"]
                                    /\ UNCHANGED steps
  /\ UNCHANGED <<callVars, auth, addr, mkdirs, open, raceVars, rfs>>

\* What a failure inside downloadDirectory does to the rest of the
\* traversal: the error is returned up through every level.
AfterFailure(rest) == <<>>

\* downloadDirectory: the next thing the traversal does: os.MkdirAll of the
\* local directory and sftpClient.ReadDir of the remote one, or the transfer
\* of the next file.  When nothing is left it returns nil and the worker
\* returns without a further record.
WalkStep(i) ==
  /\ pc[i] = "walk"
  /\ IF steps[i] = <<>>
       THEN /\ pc' = [pc EXCEPT ![i] = "exit"]
            /\ UNCHANGED <<steps, xfer, lfs, sinkVars>>
     ELSE IF Head(steps[i]).k = "dir"
       THEN \E allowed \in BOOLEAN :
              LET made == MkdirAll(lfs, Head(steps[i]).l, allowed)
              IN IF Failed(made.err)
                   THEN /\ FailWith(i, made.err)
                        /\ steps' = [steps EXCEPT ![i] = AfterFailure(Tail(@))]
                        /\ UNCHANGED <<xfer, lfs>>
                   ELSE /\ lfs' = made.fs
                        /\ \/ /\ FailWith(i, Err("readdir"))
                              /\ steps' = [steps EXCEPT ![i] = AfterFailure(Tail(@))]
                           \/ /\ steps' = [steps EXCEPT ![i] = Tail(@)]
                              /\ pc' = [pc EXCEPT ![i] = "walk"]
                              /\ UNCHANGED sinkVars
                        /\ UNCHANGED xfer
       ELSE /\ xfer' = [xfer EXCEPT ![i] =
                          [NoTransfer EXCEPT !.r = Head(steps[i]).r,
                                             !.l = Head(steps[i]).l,
                                             !.inDir = TRUE]]
            /\ steps' = [steps EXCEPT ![i] = Tail(@)]
            /\ pc' = [pc EXCEPT ![i] = "dfopen"]
            /\ UNCHANGED <<lfs, sinkVars>>
  /\ UNCHANGED <<callVars, auth, addr, mkdirs, open, raceVars, rfs>>

\* downloadFile up to the start of the copy goroutine: sftpClient.Open,
\* remoteFile.Stat, os.Create (which truncates an existing file), a fresh
\* done channel and hash.
OpenTransfer(i) ==
  /\ pc[i] = "dfopen"
  /\ \/ \E e \in {"open", "filestat", "createlocal"} :
          /\ werr' = [werr EXCEPT ![i] = Err(e)]
          /\ open' = [open EXCEPT ![i] =
                        IF e = "open" THEN @ ELSE @ \cup {"remoteFile"}]
          /\ pc' = [pc EXCEPT ![i] = "dfret"]
          /\ UNCHANGED <<xfer, lfs, bg, elapsed, doneCh>>
     \/ /\ rfs[hostname(i)][xfer[i].r].kind = "file"
        /\ open' = [open EXCEPT ![i] = @ \cup {"remoteFile", "localFile"}]
        /\ lfs' = [lfs EXCEPT ![xfer[i].l] = File(<<>>)]
        /\ xfer' = [xfer EXCEPT ![i].size = Len(rfs[hostname(i)][xfer[i].r].data),
                                ![i].created = TRUE,
                                ![i].linked = TRUE]
        /\ bg' = [bg EXCEPT ![i] = "reading"]
        /\ elapsed' = [elapsed EXCEPT ![i] = NewTimer(@)]
        /\ doneCh' = [doneCh EXCEPT ![i] = <<>>]
        /\ pc' = [pc EXCEPT ![i] = "wait"]
        /\ UNCHANGED werr
  /\ UNCHANGED <<callVars, auth, addr, mkdirs, signalled, sinkVars, steps, rfs>>

\* The copy goroutine: nr, er := remoteFile.Read(buf)
DownloadRead(i) ==
  /\ bg[i] = "reading"
  /\ LET send(e) == /\ doneCh' = [doneCh EXCEPT ![i] = Append(@, e)]
                    /\ bg' = [bg EXCEPT ![i] = AfterSend(@)]
                    /\ UNCHANGED xfer
         chunk == ReadAt(rfs[hostname(i)][xfer[i].r].data, xfer[i].off)
     IN IF "remoteFile" \notin open[i]
          THEN send(Err("closed"))
        ELSE \/ send(Err("read"))
             \/ IF chunk = <<>>
                  THEN send(NoErr)
                  ELSE /\ xfer' = [xfer EXCEPT ![i].buf = chunk]
                       /\ bg' = [bg EXCEPT ![i] = "writing"]
                       /\ UNCHANGED doneCh
  /\ UNCHANGED <<callVars, pc, auth, addr, mkdirs, open, elapsed, signalled, werr, sinkVars,
                 steps, fsVars>>

\* WriteChunk with the local file as the only writer: the hash is fed
\* nothing.
WriteChunkFileOnly(i) ==
  /\ lfs' = IF xfer[i].linked
              THEN [lfs EXCEPT ![xfer[i].l] =
                      File(WriteAt(@.data, xfer[i].off, xfer[i].buf))]
              ELSE lfs
  /\ xfer' = [xfer EXCEPT ![i].off = @ + Len(xfer[i].buf),
                          ![i].downloaded = @ + Len(xfer[i].buf),
                          ![i].buf = <<>>]

\* What multiWriter.Write(buf[0:nr]) does with a chunk it writes in full:
\* the local file first, then the hash, then downloaded += nw.  The bytes
\* land in the file the path names only while the handle's file is still the
\* one linked there.
WriteChunk(i) ==
  /\ lfs' = IF xfer[i].linked
              THEN [lfs EXCEPT ![xfer[i].l] =
                      File(WriteAt(@.data, xfer[i].off, xfer[i].buf))]
              ELSE lfs
  /\ xfer' = [xfer EXCEPT ![i].hash = @ \o xfer[i].buf,
                          ![i].off = @ + Len(xfer[i].buf),
                          ![i].downloaded = @ + Len(xfer[i].buf),
                          ![i].buf = <<>>]

\* The copy goroutine: nw, ew := multiWriter.Write(buf[0:nr]); a write error
\* or a short write ends the copy with that error.
DownloadWrite(i) ==
  /\ bg[i] = "writing"
  /\ LET send(e) == /\ doneCh' = [doneCh EXCEPT ![i] = Append(@, e)]
                    /\ bg' = [bg EXCEPT ![i] = AfterSend(@)]
                    /\ UNCHANGED <<xfer, lfs>>
     IN IF "localFile" \notin open[i]
          THEN send(Err("closed"))
        ELSE \/ \E e \in {"write", "shortwrite"} : send(Err(e))
             \/ /\ WriteChunk(i)
                /\ bg' = [bg EXCEPT ![i] = "reading"]
                /\ UNCHANGED doneCh
  /\ UNCHANGED <<callVars, pc, auth, addr, mkdirs, open, elapsed, signalled, werr, sinkVars,
                 steps, rfs>>

\* RemovesLocal with the cleanup tied to the copy's own error only.
RemovesLocalOnCopyError(i) ==
  xfer[i].created /\ Failed(werr[i]) /\ werr[i].kind # "timeout"

\* RemovesLocal whatever the outcome of the transfer.
RemovesLocalAlways(i) == xfer[i].created

\* The deferred function of downloadFile removes the local file when
\* downloadError is set.
RemovesLocal(i) == xfer[i].created /\ Failed(werr[i])

\* downloadFile returns: localFile.Close(); os.Remove(localPath) when the
\* transfer failed; remoteFile.Close().  A removed path no longer names the
\* file of any handle.
DownloadFileReturn(i) ==
  /\ pc[i] = "dfret"
  /\ open' = [open EXCEPT ![i] = @ \ {"localFile", "remoteFile"}]
  /\ IF RemovesLocal(i)
       THEN /\ lfs' = [lfs EXCEPT ![xfer[i].l] = Absent]
            /\ xfer' = [j \in Workers |->
                          IF xfer[j].l = xfer[i].l
                            THEN [xfer[j] EXCEPT !.linked = FALSE]
                            ELSE xfer[j]]
       ELSE UNCHANGED <<lfs, xfer>>
  /\ pc' = [pc EXCEPT ![i] = "dfdone"]
  /\ UNCHANGED <<callVars, auth, addr, mkdirs, raceVars, sinkVars, steps, rfs>>

\* The values downloadFile returned: (fileSize, md5sum, nil) on success,
\* (downloaded, "", err) after the copy started, (0, "", err) before.
ReturnedSize(i) ==
  IF Failed(werr[i]) THEN xfer[i].downloaded ELSE xfer[i].size
ReturnedMD5(i) ==
  IF Failed(werr[i]) THEN NoMD5 ELSE Md5Sum(xfer[i].hash)

\* AfterTransfer with a failed transfer started again.
AfterTransferRetry(i) == IF Failed(werr[i]) THEN "dfopen" ELSE "exit"

\* DownloadFiles after the record of its single file, the error record as
\* the success record: the worker function returns.
AfterTransfer(i) == "exit"

\* The caller of downloadFile.  DownloadFiles (single file): the error or
\* the success record of the host.  downloadDirectory: an error is returned
\* up to DownloadFiles, which emits the host's error record; a success is
\* logged as the file's record (and printed only in JSON mode) and the
\* traversal goes on.
DownloadReport(i) ==
  /\ pc[i] = "dfdone"
  /\ IF ~xfer[i].inDir
       THEN /\ Emit(i, [Record(i, IF Failed(werr[i]) THEN "error" ELSE "success",
                               werr[i])
                          EXCEPT !.local = xfer[i].l, !.size = ReturnedSize(i),
                                 !.md5 = ReturnedMD5(i)], TRUE)
            /\ pc' = [pc EXCEPT ![i] = AfterTransfer(i)]
            /\ UNCHANGED steps
     ELSE IF Failed(werr[i])
       THEN /\ FailWith(i, werr[i])
            /\ steps' = [steps EXCEPT ![i] = AfterFailure(@)]
       ELSE /\ Emit(i, [Record(i, "success", NoErr)
                          EXCEPT !.remote = xfer[i].r, !.local = xfer[i].l,
                                 !.size = ReturnedSize(i), !.md5 = ReturnedMD5(i)],
                    config.JSONOutput)
            /\ pc' = [pc EXCEPT ![i] = "walk"]
            /\ UNCHANGED steps
  /\ UNCHANGED <<callVars, auth, addr, mkdirs, open, raceVars, xfer, fsVars>>

\* ------------------------------------------------------- sql.ExecuteQuery
\* The query of an invocation that runs none.  elapsed is the time since the
\* context was made, rows what the query returns and fetched what rows.Next
\* has handed over.
NoQuery == [pc |-> "idle", elapsed |-> 0, rows |-> 0, fetched |-> 0]

\* What ExecuteQuery leaves alone: the state of the SSH operations.
sshVars ==
  <<config, hosts, mainpc, wg, fileSize, clock, tty, pc, auth, addr, mkdirs,
    open, raceVars, xfer, steps, fsVars>>

\* &pkg.SQLResult{Host: config.DBHost, Type: "sql", DB: config.DBType, ...}
SQLResult(status, e) ==
  [host |-> config.DBHost, type |-> "sql", db |-> config.DBType,
   status |-> status, err |-> e, rows |-> sql.fetched]

\* cmdLogger.LogSQL(result), then output.OutputSQLResult(..., logWriter)
\* unless the branch only prints to standard error; then return.
SqlReturn(rec, toWriter) ==
  /\ logfs' = LogX(logfs, 1, rec).fs
  /\ lastCleanup' = LogX(logfs, 1, rec).last
  /\ logged' = [logged EXCEPT ![1] = Append(@, rec)]
  /\ written' = [written EXCEPT ![1] = IF toWriter THEN Append(@, rec) ELSE @]
  /\ warned' = [warned EXCEPT ![1] = ~toWriter]
  /\ sql' = [sql EXCEPT !.pc = "done"]

\* if config.DBType == "" || config.DBHost == "" || config.DBUser == ""
SqlCheckFlags ==
  /\ sql.pc = "start"
  /\ IF config.DBType = "" \/ config.DBHost = "" \/ config.DBUser = ""
       THEN /\ sql' = [sql EXCEPT !.pc = "done"]
            /\ warned' = [warned EXCEPT ![1] = TRUE]
       ELSE /\ sql' = [sql EXCEPT !.pc = "open"]
            /\ UNCHANGED warned
  /\ UNCHANGED <<sshVars, logged, written, logfs, lastCleanup>>

\* switch strings.ToLower(config.DBType): sql.Open("dm", connStr) for "dm";
\* an error record for "oracle" and for anything else.
SqlOpen ==
  /\ sql.pc = "open"
  /\ IF config.DBType = "dm"
       THEN \/ /\ sql' = [sql EXCEPT !.pc = "query"]
               /\ UNCHANGED sinkVars
            \/ SqlReturn(SQLResult("error", Err("open")), TRUE)
       ELSE SqlReturn(SQLResult("error", Err("unsupported")), FALSE)
  /\ UNCHANGED sshVars

\* <-ctx.Done() of context.WithTimeout(context.Background(),
\* time.Duration(config.Timeout)*time.Second): the deadline is config.Timeout
\* seconds after the context was made, and has passed at once when that is 0.
CtxDone == sql.elapsed >= config.Timeout

\* ctx, cancel := context.WithTimeout(...); rows, err := db.QueryContext(ctx,
\* config.SQL): database/sql looks at ctx.Done() before it sends the query.
SqlQuery ==
  /\ sql.pc = "query"
  /\ IF CtxDone
       THEN SqlReturn(SQLResult("error", Err("deadline")), TRUE)
       ELSE \/ /\ sql' = [sql EXCEPT !.pc = "running"]
               /\ UNCHANGED sinkVars
            \/ SqlReturn(SQLResult("error", Err("query")), TRUE)
  /\ UNCHANGED sshVars

\* A second passes while the database works or the rows are read.
SqlTick ==
  /\ sql.pc \in {"running", "rows"}
  /\ sql.elapsed < MaxElapsed
  /\ sql' = [sql EXCEPT !.elapsed = @ + 1]
  /\ UNCHANGED <<sshVars, sinkVars>>

\* QueryContext returns: with the context's error when the deadline passed
\* while the database was working, with the rows otherwise.
SqlQueryReturns ==
  /\ sql.pc = "running"
  /\ IF CtxDone
       THEN SqlReturn(SQLResult("error", Err("deadline")), TRUE)
       ELSE \E n \in 0..MaxRows :
              /\ sql' = [sql EXCEPT !.pc = "rows", !.rows = n]
              /\ UNCHANGED sinkVars
  /\ UNCHANGED sshVars

\* for rows.Next() { rows.Scan(...) }; rows.Err(): a context that is done
\* closes the rows, and rows.Err() is then the context's error; after the
\* last row comes the success record.
SqlNextRow ==
  /\ sql.pc = "rows"
  /\ IF CtxDone
       THEN SqlReturn(SQLResult("error", Err("deadline")), TRUE)
       ELSE IF sql.fetched < sql.rows
         THEN \/ /\ sql' = [sql EXCEPT !.fetched = @ + 1]
                 /\ UNCHANGED sinkVars
              \/ SqlReturn(SQLResult("error", Err("scan")), TRUE)
         ELSE SqlReturn(SQLResult("success", NoErr), TRUE)
  /\ UNCHANGED sshVars

\* ------------------------------------------------------------ specification
\* The state after main has parsed the flags and read the host list; inv is
\* <<flags, host list, node at the local source path>>.
InitRun(invocations) ==
  /\ \E inv \in invocations :
       /\ config = inv[1]
       /\ hosts = inv[2]
       /\ lfs = LocalDisk(inv[3])
  /\ mainpc = "start"
  /\ wg = 0
  /\ pc = [i \in Workers |-> "idle"]
  /\ auth = [i \in Workers |-> <<>>]
  /\ addr = [i \in Workers |-> <<>>]
  /\ mkdirs = [i \in Workers |-> <<>>]
  /\ open = [i \in Workers |-> {}]
  /\ elapsed = [i \in Workers |-> 0]
  /\ doneCh = [i \in Workers |-> <<>>]
  /\ bg = [i \in Workers |-> "none"]
  /\ signalled = [i \in Workers |-> FALSE]
  /\ werr = [i \in Workers |-> NoErr]
  /\ logged = [i \in Workers |-> <<>>]
  /\ written = [i \in Workers |-> <<>>]
  /\ warned = [i \in Workers |-> FALSE]
  /\ fileSize = 0
  /\ xfer = [i \in Workers |-> NoTransfer]
  /\ steps = [i \in Workers |-> <<>>]
  /\ rfs = [h \in HostNames |-> RemoteTree(h)]

\* A run of an SSH operation: the clock stands at midnight of the first day
\* and the log directory is empty.
InitWith(invocations) ==
  /\ InitRun(invocations)
  /\ sql = NoQuery
  /\ clock = [day |-> 0, ms |-> 0]
  /\ tty = <<>>
  /\ logfs = EmptyLog
  /\ lastCleanup = clock

\* The local source file of an upload: present, or missing.
Sources(c) == IF c.op = "upload" THEN {File(<<1, 2>>), Absent} ELSE {File(<<1, 2>>)}

\* A single host with every flag combination; several hosts with key
\* authentication (whose outcome varies per worker) and a single remote file;
\* three hosts or more with commands only.
Invocations ==
  { <<c, hs, src>> \in Configs \X HostLists \X {File(<<1, 2>>), Absent} :
      /\ src \in Sources(c)
      /\ Len(hs) > 1 =>
           /\ c.Key = "k" /\ c.Password = ""
           /\ c.RemotePath = DefaultConfig.RemotePath
      /\ Len(hs) > 2 => c.op = "cmd" /\ c.JSONOutput /\ ~c.RealTimeOutput }

Init == InitWith(Invocations)

Worker(i) ==
  \/ Authenticate(i)
  \/ Dial(i)
  \/ NewSession(i)
  \/ StartCommand(i)
  \/ CommandEnds(i)
  \/ Tick(i)
  \/ ReceiveDone(i)
  \/ ReceiveTimeout(i)
  \/ CmdReport(i)
  \/ NewSftpClient(i)
  \/ EnsureRemoteDir(i)
  \/ OpenLocal(i)
  \/ CreateRemote(i)
  \/ UploadCopy(i)
  \/ UploadReport(i)
  \/ StatRemote(i)
  \/ WalkStep(i)
  \/ OpenTransfer(i)
  \/ DownloadRead(i)
  \/ DownloadWrite(i)
  \/ DownloadFileReturn(i)
  \/ DownloadReport(i)
  \/ Exit(i)

Next ==
  \/ Call
  \/ Return
  \/ \E i \in Workers : Worker(i)

Spec == Init /\ [][Next]_vars

\* -------------------------------------------------- fair scheduling
\* The steps of the worker goroutine of entry i itself.  The Go scheduler
\* runs a goroutine that can run; nothing makes the remote command or the
\* copy goroutine finish, and nothing makes time pass at a given rate.
Goroutine(i) ==
  \/ Authenticate(i) \/ Dial(i) \/ NewSession(i) \/ StartCommand(i)
  \/ NewSftpClient(i) \/ EnsureRemoteDir(i) \/ OpenLocal(i) \/ CreateRemote(i)
  \/ StatRemote(i) \/ WalkStep(i) \/ OpenTransfer(i)
  \/ ReceiveDone(i) \/ ReceiveTimeout(i)
  \/ CmdReport(i) \/ UploadReport(i) \/ DownloadFileReturn(i) \/ DownloadReport(i)
  \/ Exit(i)

\* The invocations that arm a timer, for one host or two.
LiveInvocations ==
  { inv \in Invocations :
      inv[1].Timeout > 0 /\ inv[1].JSONOutput /\ Len(inv[2]) <= 2 }

InitLive == InitWith(LiveInvocations)

SpecLive ==
  InitLive /\ [][Next]_vars /\ \A i \in Workers : WF_vars(Goroutine(i))

\* ------------------------------------------- upload, then download it back
\* The bytes of a file of the model.
MaxFileLen == 2
Contents == UNION { [1..n -> {1, 2}] : n \in 0..MaxFileLen }

\* A second run of the program after an upload that succeeded on every host:
\* the same hosts, the uploaded remote file as -remote-path.  The process of
\* the first run is gone, the file systems and the log stay.
Reinvoke ==
  /\ mainpc = "returned"
  /\ config.op = "upload"
  /\ \A i \in Active : logged[i] # <<>> /\ \A k \in 1..Len(logged[i]) :
                                              logged[i][k].status = "success"
  /\ config' = [config EXCEPT !.op = "download", !.RemotePath = RemoteFile]
  /\ mainpc' = "start"
  /\ pc' = [i \in Workers |-> "idle"]
  /\ open' = [i \in Workers |-> {}]
  /\ elapsed' = [i \in Workers |-> 0]
  /\ doneCh' = [i \in Workers |-> <<>>]
  /\ bg' = [i \in Workers |-> "none"]
  /\ werr' = [i \in Workers |-> NoErr]
  /\ xfer' = [i \in Workers |-> NoTransfer]
  /\ UNCHANGED <<hosts, sql, clock, tty, wg, fileSize, auth, addr, mkdirs, signalled, sinkVars, steps, fsVars>>

\* Every content of the source, password authentication; one host with or
\* without a timeout and a permission, two hosts without.
RoundTripInvocations ==
  { <<[Flags("upload", q[1], [Key |-> "", Password |-> "p"], TRUE)
         EXCEPT !.UploadPermission = q[2]], q[4], File(q[3])>> :
      q \in { r \in Timeouts \X {0, 420} \X Contents \X HostLists :
                /\ Len(r[4]) <= 2
                /\ Len(r[4]) > 1 => r[1] = 0 /\ r[2] = 0 } }

InitRoundTrip == InitWith(RoundTripInvocations)

TransferWorker(i) ==
  \/ Authenticate(i)
  \/ Dial(i)
  \/ Tick(i)
  \/ ReceiveDone(i)
  \/ ReceiveTimeout(i)
  \/ NewSftpClient(i)
  \/ EnsureRemoteDir(i)
  \/ OpenLocal(i)
  \/ CreateRemote(i)
  \/ UploadCopy(i)
  \/ UploadReport(i)
  \/ StatRemote(i)
  \/ OpenTransfer(i)
  \/ DownloadRead(i)
  \/ DownloadWrite(i)
  \/ DownloadFileReturn(i)
  \/ DownloadReport(i)
  \/ Exit(i)

NextRoundTrip ==
  \/ Call
  \/ Return
  \/ Reinvoke
  \/ \E i \in Workers : TransferWorker(i)

SpecRoundTrip == InitRoundTrip /\ [][NextRoundTrip]_vars

\* ------------------------------------------------- commands and exec users
MaxCmdLen == 3
CmdChars == {"a", "'", "\\", " "}
CmdStrings == UNION { [1..n -> CmdChars] : n \in 1..MaxCmdLen }

\* -cmd with every command of the model, -exec-user unset, the SSH user or
\* another user; one host.
EscapeInvocations ==
  { <<[DefaultConfig EXCEPT !.Cmd = c, !.ExecUser = u, !.Timeout = t],
      << <<"a">> >>, File(<<1, 2>>)>> :
      c \in CmdStrings, u \in {"", "root", "dm"}, t \in Timeouts }

InitEscape == InitWith(EscapeInvocations)

CmdWorker(i) ==
  \/ Authenticate(i)
  \/ Dial(i)
  \/ NewSession(i)
  \/ StartCommand(i)
  \/ CommandEnds(i)
  \/ Tick(i)
  \/ ReceiveDone(i)
  \/ ReceiveTimeout(i)
  \/ CmdReport(i)
  \/ Exit(i)

NextEscape ==
  \/ Call
  \/ Return
  \/ \E i \in Workers : CmdWorker(i)

SpecEscape == InitEscape /\ [][NextEscape]_vars

\* ------------------------------------------------------------------ claims
Returned == mainpc = "returned"
Statuses(recs) == { recs[k].status : k \in 1..Len(recs) }
ErrorsOf(recs) == { k \in 1..Len(recs) : recs[k].status = "error" }
SuccessesOf(recs) == { k \in 1..Len(recs) : recs[k].status = "success" }

\* Entry i asks for a remote directory.
DirectoryDownload(i) ==
  config.op = "download" /\ rfs[hostname(i)][config.RemotePath].kind = "dir"

\* The regular files and the sub-directories below remote path p on host h.
FilesBelow(h, p) ==
  { q \in RPaths : Len(q) > Len(p) /\ SubSeq(q, 1, Len(p)) = p
                   /\ rfs[h][q].kind = "file" }
DirsBelow(h, p) ==
  { q \in RPaths : Len(q) > Len(p) /\ SubSeq(q, 1, Len(p)) = p
                   /\ rfs[h][q].kind = "dir" }

\* C1 as stated: when the call has returned, every entry of the host list has
\* exactly one result record, whatever the operation and the outcomes.
C1_OneRecordPerHost ==
  Returned => \A i \in Workers : Len(logged[i]) = (IF i \in Active THEN 1 ELSE 0)

\* C1 amended: when the call has returned, every entry of the host list has
\* exactly one record, except that UploadFiles whose local source check failed
\* has produced none, and that an entry whose remote path is a directory has
\* one success record per transferred file (of distinct files, all the
\* files of the tree when nothing failed) and at most one error record,
\* its last.
C1_RecordsPerHost ==
  Returned =>
    \A i \in Workers :
      LET recs == logged[i] IN
      IF i \notin Active \/ LocalFileMissing THEN recs = <<>>
      ELSE IF DirectoryDownload(i)
        THEN /\ ErrorsOf(recs) \subseteq {Len(recs)}
             /\ \A k, m \in SuccessesOf(recs) :
                  recs[k].remote = recs[m].remote => k = m
             /\ { recs[k].remote : k \in SuccessesOf(recs) }
                  \subseteq FilesBelow(hostname(i), config.RemotePath)
             /\ ErrorsOf(recs) = {} =>
                  Len(recs) = Cardinality(FilesBelow(hostname(i), config.RemotePath))
        ELSE Len(recs) = 1

\* C1 witness: a call over two hosts has returned with one error record for
\* the first entry and one success record for the second.
C1_Witness ==
  /\ Returned /\ Len(hosts) = 2
  /\ Statuses(logged[1]) = {"error"} /\ Statuses(logged[2]) = {"success"}

\* C2: when the call has returned and the worker of entry A has failed, the
\* file every other entry B reported as downloaded is at B's local path with
\* the bytes of B's remote file.
C2_FailureIsolation ==
  Returned /\ config.op = "download" =>
    \A A, B \in Active :
      (A # B /\ "error" \in Statuses(logged[A])) =>
        \A k \in SuccessesOf(logged[B]) :
          lfs[logged[B][k].local] =
            File(rfs[hostname(B)][logged[B][k].remote].data)

C5_NoTimerWhenZero ==
  config.Timeout = 0 =>
    \A i \in Workers :
      /\ werr[i].kind # "timeout"
      /\ \A k \in 1..Len(logged[i]) : logged[i][k].err.kind # "timeout"
      /\ bg[i] \in {"running", "copying", "reading", "writing"} => pc[i] = "wait"

\* C5 witness: with timeout 0 a worker has waited longer than any timeout of
\* the model while its work is still running.
C5_Witness ==
  \E i \in Workers :
    /\ config.Timeout = 0 /\ pc[i] = "wait" /\ elapsed[i] > MaxTimeout
    /\ bg[i] \in {"running", "copying", "reading", "writing"}

\* C6: once the call has returned every worker has finished, and from then on
\* no record is logged or written.
C6_ReturnsAfterAllWorkers ==
  /\ [](Returned => \A i \in Workers : pc[i] \in {"idle", "finished"})
  /\ [][Returned => UNCHANGED sinkVars]_vars

\* C6 witness: a call over two hosts has returned, both workers having
\* emitted a record.
C6_Witness ==
  /\ Returned /\ Len(hosts) = 2
  /\ \A i \in Active : pc[i] = "finished" /\ logged[i] # <<>> /\ written[i] # <<>>

\* C8: when the call has returned, every entry whose directory traversal
\* started and met no directory error has one record per regular file of the
\* remote tree, and every sub-directory of the tree exists locally.
LocalOf(q) == config.LocalPath \o SubSeq(q, Len(config.RemotePath), Len(q))
C8_DirectoryRecords ==
  Returned =>
    \A i \in Active :
      ( /\ DirectoryDownload(i)
        /\ lfs[LocalOf(config.RemotePath)].kind = "dir"
        /\ \A k \in 1..Len(logged[i]) :
             logged[i][k].err.kind \notin {"mkdirall", "readdir"} )
      => /\ Len(logged[i]) = Cardinality(FilesBelow(hostname(i), config.RemotePath))
         /\ \A q \in DirsBelow(hostname(i), config.RemotePath) :
              lfs[LocalOf(q)].kind = "dir"

\* C10: a worker that has finished holds no open handle.
C10_AllClosed ==
  \A i \in Workers : pc[i] = "finished" => open[i] = {}

\* C10 witness: an upload worker that had the client, the SFTP client and both
\* files open has finished after a timeout.
C10_Witness ==
  \E i \in Workers :
    /\ pc[i] = "finished" /\ config.op = "upload"
    /\ logged[i] # <<>> /\ logged[i][1].err = TimeoutError

\* C4: once the timer of a waiting worker has expired (timeout N > 0, work
\* not completed), the worker finishes with exactly one error record, its
\* last, whose message names N seconds, whether or not the remote work ever
\* completes; a command worker that timed out has signalled its session and a
\* download that timed out has closed its remote file.
C4_TimeoutRecord ==
  /\ \A i \in Workers :
       (pc[i] = "wait" /\ TimerExpired(i)) ~>
         ( /\ pc[i] = "finished"
           /\ ErrorsOf(logged[i]) = {Len(logged[i])}
           /\ logged[i][Len(logged[i])].err.kind = "timeout"
           /\ logged[i][Len(logged[i])].err.secs = config.Timeout )
  /\ [](\A i \in Workers :
          werr[i].kind = "timeout" =>
            /\ config.op = "cmd" => signalled[i]
            /\ config.op = "download" => "remoteFile" \notin open[i])

\* C4 witness: a command worker has finished with a timeout record and the
\* SIGTERM sent while the remote command is still running.
C4_Witness ==
  \E i \in Workers :
    /\ pc[i] = "finished" /\ bg[i] = "running" /\ signalled[i]
    /\ Len(logged[i]) = 1 /\ logged[i][1].err = TimeoutError

\* C7: after an upload that succeeded on every host and a download of the
\* uploaded remote file that succeeded on every host, the local target holds
\* the bytes of the source file and every download record carries the MD5 of
\* the source file.
C7_RoundTrip ==
  ( /\ Returned /\ config.op = "download"
    /\ \A i \in Active : Statuses(logged[i]) = {"success"} )
  => /\ lfs[Join(config.LocalPath, Base(config.RemotePath))]
          = File(lfs[config.UploadFile].data)
     /\ \A i \in Active :
          logged[i][Len(logged[i])].md5 = Md5Sum(lfs[config.UploadFile].data)

\* C7 witness: two hosts, a two-byte file uploaded to both and downloaded
\* back from both with success.
C7_Witness ==
  /\ Returned /\ config.op = "download" /\ Len(hosts) = 2
  /\ Len(lfs[config.UploadFile].data) = 2
  /\ \A i \in Active : Len(logged[i]) = 2 /\ Statuses(logged[i]) = {"success"}

\* How a POSIX shell reads one word: inside single quotes every character is
\* literal up to the next quote; outside, a backslash makes the next
\* character literal and a blank ends the word.  ok tells whether the whole
\* text was one word with its quotes closed.
RECURSIVE ShellWord(_, _, _)
ShellWord(s, quoted, acc) ==
  IF s = <<>> THEN [ok |-> ~quoted, text |-> acc]
  ELSE IF quoted
    THEN IF Head(s) = "'" THEN ShellWord(Tail(s), FALSE, acc)
         ELSE ShellWord(Tail(s), TRUE, Append(acc, Head(s)))
  ELSE IF Head(s) = "'" THEN ShellWord(Tail(s), TRUE, acc)
  ELSE IF Head(s) = "\\"
    THEN IF Tail(s) = <<>> THEN [ok |-> FALSE, text |-> acc]
         ELSE ShellWord(Tail(Tail(s)), FALSE, Append(acc, Head(Tail(s))))
  ELSE IF Head(s) = " " THEN [ok |-> FALSE, text |-> acc]
  ELSE ShellWord(Tail(s), FALSE, Append(acc, Head(s)))

Quotes(cmd) == Cardinality({ k \in 1..Len(cmd) : cmd[k] = "'" })

\* C9: every record that carries the command sent carries, when -exec-user
\* is set and differs from the SSH user, "su - <exec-user> -c " followed by
\* one shell word that reads back as the original command and is the command
\* plus its two quotes plus three characters per embedded quote; otherwise it
\* carries the command unchanged.
C9_ExecUserWrapper ==
  \A i \in Workers : \A k \in 1..Len(logged[i]) :
    LET sent == logged[i][k].actualCmd
        arg == SubSeq(sent, 4, Len(sent))
    IN sent # <<>> =>
         IF config.ExecUser # "" /\ config.ExecUser # config.User
           THEN /\ SubSeq(sent, 1, 3) = <<"su - ", config.ExecUser, " -c ">>
                /\ ShellWord(arg, FALSE, <<>>) = [ok |-> TRUE, text |-> config.Cmd]
                /\ Len(arg) = Len(config.Cmd) + 2 + 3 * Quotes(config.Cmd)
           ELSE sent = config.Cmd

\* C9 witness: a command with an embedded single quote was run as another
\* user and its record emitted.
C9_Witness ==
  \E i \in Workers :
    /\ config.ExecUser = "dm" /\ Quotes(config.Cmd) > 0
    /\ logged[i] # <<>> /\ logged[i][1].status = "success"
    /\ logged[i][1].actualCmd # <<>>

\* C11: every success record of a download, the one logged and the one
\* written to the output writer, carries the MD5 digest of the content of the
\* remote file it names.
C11_RecordsCarryMD5 ==
  config.op = "download" =>
    \A i \in Active :
      /\ \A k \in SuccessesOf(logged[i]) :
           logged[i][k].md5 = Md5Sum(rfs[hostname(i)][logged[i][k].remote].data)
      /\ \A k \in SuccessesOf(written[i]) :
           written[i][k].md5 = Md5Sum(rfs[hostname(i)][written[i][k].remote].data)

\* C12: when a private key is configured, no worker ever has the password
\* among its authentication methods, whether the key was loaded or not.
C12_KeyOnly ==
  config.Key # "" =>
    \A i \in Workers : \A k \in 1..Len(auth[i]) : auth[i][k] # "password"

\* C12 witness: key and password are both configured and a worker has
\* dialled with the methods it built.
C12_Witness ==
  /\ config.Key # "" /\ config.Password # ""
  /\ \E i \in Workers : auth[i] # <<>> /\ "client" \in open[i]

\* ------------------------------------------------------ hosts with ports
MaxEntryLen == 4
EntryChars == {"a", ":", "2", "0"}
Entries == UNION { [1..n -> EntryChars] : n \in 1..MaxEntryLen }

\* -cmd on one host entry of any text, or on the entry "a" followed by an
\* entry of any text; -port 22 or 7; password authentication and no timeout.
DialInvocations ==
  { <<[DefaultConfig EXCEPT !.Port = p], hs, File(<<1, 2>>)>> :
      p \in {22, 7},
      hs \in { <<e>> : e \in Entries } \cup
             { << <<"a">>, e >> : e \in Entries } }

InitDial == InitWith(DialInvocations)

\* The steps of a command worker whose timer is not armed.
DialWorker(i) ==
  \/ Authenticate(i)
  \/ Dial(i)
  \/ NewSession(i)
  \/ StartCommand(i)
  \/ CommandEnds(i)
  \/ ReceiveDone(i)
  \/ CmdReport(i)
  \/ Exit(i)

NextDial ==
  \/ Call
  \/ Return
  \/ \E i \in Workers : DialWorker(i)

SpecDial == InitDial /\ [][NextDial]_vars

\* C13: a worker that has dialled used, for an entry without a colon, the
\* entry followed by ":" and the configured port; for an entry with a colon,
\* the text up to and including the first colon, followed, when the rest of
\* the entry is decimal digits, by the number these digits denote.
C13_DialAddress ==
  \A i \in Workers :
    addr[i] # <<>> =>
      LET e == hosts[i]
          colons == { k \in 1..Len(e) : e[k] = ":" }
      IN /\ colons = {} => addr[i] = e \o <<":">> \o Itoa(config.Port)
         /\ \A k \in colons :
              (\A m \in colons : k <= m) =>
                LET rest == SubSeq(e, k + 1, Len(e))
                IN /\ SubSeq(addr[i], 1, k) = SubSeq(e, 1, k)
                   /\ (rest # <<>> /\ \A m \in 1..Len(rest) : IsDigit(rest[m]))
                        => SubSeq(addr[i], k + 1, Len(addr[i])) = Itoa(Decimal(rest))

\* C13 witness: of two entries the first has no port and the second has one;
\* both workers have dialled, each its own port.
C13_Witness ==
  /\ hosts = << <<"a">>, <<"a", ":", "2">> >>
  /\ addr[1] = <<"a", ":", "2", "2">> /\ addr[2] = <<"a", ":", "2">>

\* C14: every record logged or written has status success or error, and
\* carries an error if and only if its status is error.
C14_ErrorIffStatus ==
  \A i \in Workers :
    /\ \A k \in 1..Len(logged[i]) :
         /\ logged[i][k].status \in {"success", "error"}
         /\ logged[i][k].err.kind # "" <=> logged[i][k].status = "error"
    /\ \A k \in 1..Len(written[i]) :
         /\ written[i][k].status \in {"success", "error"}
         /\ written[i][k].err.kind # "" <=> written[i][k].status = "error"

\* C14 witness: one worker has written a timeout error record and another a
\* success record.
C14_Witness ==
  \E i, j \in Workers :
    /\ written[i] # <<>> /\ written[i][1].err.kind = "timeout"
    /\ written[j] # <<>> /\ written[j][1].status = "success"

\* C15: a worker whose Chmod failed after a copy that succeeded has emitted
\* exactly one record, a success record, to the log and to the output
\* writer, and no error record.
C15_ChmodFailureIsWarning ==
  \A i \in Workers :
    (config.op = "upload" /\ warned[i]) =>
      /\ Len(logged[i]) = 1 /\ logged[i][1].status = "success"
      /\ Len(written[i]) = 1 /\ written[i][1].status = "success"

\* C15 witness: a worker has finished after a Chmod that failed; the remote
\* file holds the source's bytes and no permission was set on it.
C15_Witness ==
  \E i \in Workers :
    /\ config.op = "upload" /\ warned[i] /\ pc[i] = "finished"
    /\ rfs[hostname(i)][RemoteFile] = File(lfs[config.UploadFile].data)

\* ------------------------------------------------------------------- C16
\* Worker j has returned from createRemoteDir without an error.
DirEnsured(j) ==
  /\ j \in Active
  /\ config.op = "upload"
  /\ pc[j] \notin {"idle", "auth", "dial", "session", "mkdir"}
  /\ \A k \in 1..Len(logged[j]) :
       logged[j][k].err.kind \notin
         {"unreadable", "unparsable", "noauth", "dial", "sftp", "mkdir"}

SqlInvocations ==
  { <<[DefaultConfig EXCEPT !.op = "sql", !.Timeout = t, !.DBType = db,
                            !.DBHost = "h", !.DBUser = u, !.SQL = "q",
                            !.JSONOutput = j, !.EnableCommandLog = l],
      <<>>, File(<<1, 2>>)>> :
      t \in Timeouts, db \in {"dm", "oracle", "pg"}, u \in {"", "SYSDBA"},
      j \in BOOLEAN, l \in BOOLEAN }

InitSQL ==
  /\ InitRun(SqlInvocations)
  /\ sql = [NoQuery EXCEPT !.pc = "start"]
  /\ clock = [day |-> 0, ms |-> 0]
  /\ tty = <<>>
  /\ logfs = EmptyLog
  /\ lastCleanup = clock

NextSQL ==
  \/ SqlCheckFlags
  \/ SqlOpen
  \/ SqlQuery
  \/ SqlTick
  \/ SqlQueryReturns
  \/ SqlNextRow

SpecSQL == InitSQL /\ [][NextSQL]_vars

\* ------------------------------------------------------------------- C17
\* C17: with -timeout 0 the query has no deadline: no result of ExecuteQuery
\* carries the error of a deadline that passed.
C17_NoDeadlineWithoutTimeout ==
  (config.op = "sql" /\ config.Timeout = 0) =>
    \A k \in 1..Len(logged[1]) : logged[1][k].err.kind # "deadline"

\* ------------------------------------------------------------------- C18
\* C18: in real-time mode (-json-output=false -real-time) the record of a
\* command that has finished, which the worker hands to the logger, is also
\* written to the output writer.
C18_RealTimeWritesRecord ==
  (config.op = "cmd" /\ ~config.JSONOutput /\ config.RealTimeOutput) =>
    \A i \in Active :
      \A k \in 1..Len(logged[i]) :
        \E n \in 1..Len(written[i]) : written[i][n] = Printed(logged[i][k])

\* ------------------------------------------------- runs that write log files
\* The clock moves on by a millisecond.
ClockTick ==
  /\ clock.ms < 59999 + MaxTicks
  /\ clock' = [clock EXCEPT !.ms = @ + 1]
  /\ UNCHANGED <<config, hosts, mainpc, wg, fileSize, sql, tty, pc, auth, addr,
                 mkdirs, open, raceVars, sinkVars, xfer, steps, fsVars>>

\* Invocations with -enable-command-log (the default) and key authentication:
\* one host with or without a timeout, a remote file or a remote directory;
\* two hosts without a timeout and with a remote file.
LogInvocations ==
  { <<[Flags(q[1], q[2], [Key |-> "k", Password |-> ""], TRUE)
         EXCEPT !.EnableCommandLog = TRUE, !.RemotePath = q[3]],
      q[4], File(<<1, 2>>)>> :
      q \in { r \in Ops \X Timeouts \X {<<"d">>, <<"d", "f1">>} \X HostLists :
                /\ Len(r[4]) <= 2
                /\ r[1] # "download" => r[3] = <<"d", "f1">>
                /\ Len(r[4]) > 1 => r[2] = 0 /\ r[3] = <<"d", "f1">> } }

\* The run starts a millisecond before 00:01:00 of the second day, with the
\* log directory empty.
InitLog ==
  /\ InitRun(LogInvocations)
  /\ sql = NoQuery
  /\ clock = [day |-> 1, ms |-> 59999]
  /\ tty = <<>>
  /\ logfs = EmptyLog
  /\ lastCleanup = clock

NextLog ==
  \/ Next
  \/ ClockTick

SpecLog == InitLog /\ [][NextLog]_vars

\* ------------------------------------------------------------------- C19
\* The log files below the log directory.
LogFiles == { p \in DOMAIN logfs : logfs[p].kind = "file" }

\* C19: with command logging enabled there are as many log files as records
\* handed to the logger, and every such record is what some log file holds.
C19_OneFilePerRecord ==
  config.EnableCommandLog =>
    /\ Cardinality(LogFiles) =
         Cardinality(UNION { { <<i, k>> : k \in 1..Len(logged[i]) } : i \in Workers })
    /\ \A i \in Workers : \A k \in 1..Len(logged[i]) :
         \E p \in LogFiles : logfs[p].data = logged[i][k]

\* ------------------------------------------------------- starting the logger
\* The directory of day n below the log directory.
DateDir(n) == <<FormatDate(n)>>

\* What the log directory holds when the program starts: for each day up to
\* today a directory that is missing, empty, or holds one log file; and
\* perhaps a directory that is not named after a day.
LogTrees ==
  { [p \in {<<>>}
           \cup { DateDir(n) : n \in { m \in 0..MaxDay : t[1][m] # "none" } }
           \cup { DateDir(n) \o <<LogFileName("cmd", 0)>> :
                    n \in { m \in 0..MaxDay : t[1][m] = "full" } }
           \cup (IF t[2] THEN {<<<<"m", "i", "s", "c">>>>} ELSE {})
      |-> IF Len(p) = 2 THEN File(<<>>) ELSE Dir] :
      t \in [0..MaxDay -> {"none", "empty", "full"}] \X BOOLEAN }

\* -enable-command-log and -log-retention of the invocation.
CleanupInvocations ==
  { <<[DefaultConfig EXCEPT !.EnableCommandLog = l, !.LogRetention = r],
      << <<"a">> >>, File(<<1, 2>>)>> :
      l \in BOOLEAN, r \in 0..(MaxDay - 1) }

\* main is about to call logger.NewLogger(cfg) on day MaxDay.
InitCleanup ==
  /\ \E inv \in CleanupInvocations :
       /\ config = inv[1]
       /\ hosts = inv[2]
       /\ lfs = LocalDisk(inv[3])
  /\ mainpc = "newlogger"
  /\ wg = 0
  /\ pc = [i \in Workers |-> "idle"]
  /\ auth = [i \in Workers |-> <<>>]
  /\ addr = [i \in Workers |-> <<>>]
  /\ mkdirs = [i \in Workers |-> <<>>]
  /\ open = [i \in Workers |-> {}]
  /\ elapsed = [i \in Workers |-> 0]
  /\ doneCh = [i \in Workers |-> <<>>]
  /\ bg = [i \in Workers |-> "none"]
  /\ signalled = [i \in Workers |-> FALSE]
  /\ werr = [i \in Workers |-> NoErr]
  /\ logged = [i \in Workers |-> <<>>]
  /\ written = [i \in Workers |-> <<>>]
  /\ warned = [i \in Workers |-> FALSE]
  /\ fileSize = 0
  /\ xfer = [i \in Workers |-> NoTransfer]
  /\ steps = [i \in Workers |-> <<>>]
  /\ rfs = [h \in HostNames |-> RemoteTree(h)]
  /\ sql = NoQuery
  /\ clock = [day |-> MaxDay, ms |-> 0]
  /\ tty = <<>>
  /\ logfs \in LogTrees
  /\ lastCleanup = clock

NextCleanup == NewLogger

SpecCleanup == InitCleanup /\ [][NextCleanup]_vars

\* ------------------------------------------------------------------- C20
\* The days before the cutoff, today minus the retention.
ExpiredDays == { n \in 0..MaxDay : n < clock.day - config.LogRetention }

\* C20: when CleanupExpiredLogs has run with logging on and a positive
\* retention, no directory of a day before the cutoff is left, and the log
\* directory, the directories of the other days, the directories not named
\* after a day and all they hold are as they were.
C20_CleanupRemovesExpired ==
  [][(mainpc = "newlogger" /\ mainpc' = "start"
        /\ config.EnableCommandLog /\ config.LogRetention > 0) =>
       /\ \A n \in ExpiredDays : DateDir(n) \notin DOMAIN logfs'
       /\ \A p \in DOMAIN logfs :
            (\A n \in ExpiredDays : p \notin Below(logfs, DateDir(n))) =>
              p \in DOMAIN logfs' /\ logfs'[p] = logfs[p]]_vars

\* ------------------------------------------------------ runs that last days
\* Twelve hours pass.
HalfDayPasses ==
  /\ clock.day < MaxDay
  /\ clock' = IF clock.ms + 43200000 >= 86400000
                THEN [day |-> clock.day + 1, ms |-> clock.ms + 43200000 - 86400000]
                ELSE [clock EXCEPT !.ms = @ + 43200000]
  /\ UNCHANGED <<config, hosts, mainpc, wg, fileSize, sql, tty, pc, auth, addr,
                 mkdirs, open, raceVars, sinkVars, xfer, steps, fsVars>>

\* Commands without a timeout on one or two hosts, with key authentication,
\* -enable-command-log on or off and -log-retention 0, 1 or 2.
RetentionInvocations ==
  { <<[Flags("cmd", 0, [Key |-> "k", Password |-> ""], TRUE)
         EXCEPT !.EnableCommandLog = l, !.LogRetention = r],
      hs, File(<<1, 2>>)>> :
      l \in BOOLEAN, r \in 0..2, hs \in { h \in HostLists : Len(h) <= 2 } }

\* NewLogger has just run: lastCleanupTime is the time of the start.
InitRetention ==
  /\ InitRun(RetentionInvocations)
  /\ sql = NoQuery
  /\ clock = [day |-> 0, ms |-> 0]
  /\ tty = <<>>
  /\ logfs = EmptyLog
  /\ lastCleanup = clock

NextRetention ==
  \/ NextDial
  \/ HalfDayPasses

SpecRetention == InitRetention /\ [][NextRetention]_vars

\* ------------------------------------------------------------------- C21
\* C21: a log call made more than 24 hours after the last cleanup runs the
\* cleanup check and sets the time of the last cleanup, whatever the
\* retention.
C21_DailyCleanupCheck ==
  [][\A i \in Active :
       (/\ config.EnableCommandLog
        /\ Len(logged'[i]) > Len(logged[i])
        /\ Since(lastCleanup) > 86400000) => lastCleanup' = clock]_vars

\* ------------------------------------------------------------------- C22
\* How a transfer ended, by its error.
Outcome(e) ==
  CASE e = NoErr -> "Completed"
    [] e.kind = "timeout" -> "TimedOut"
    [] OTHER -> "Failed"

\* The state of the single-file download of worker i.
Phase(i) ==
  CASE pc[i] = "idle" -> "Idle"
    [] pc[i] \in {"auth", "dial", "session", "stat", "dfopen"} -> "Connecting"
    [] pc[i] = "wait" -> "Transferring"
    [] pc[i] \in {"dfret", "dfdone"} -> Outcome(werr[i])
    [] OTHER -> IF logged[i] = <<>> THEN "Failed"
                ELSE Outcome(logged[i][Len(logged[i])].err)

\* The states that may follow a state, itself included.
PhasesAfter(ph) ==
  CASE ph = "Idle" -> {"Idle", "Connecting"}
    [] ph = "Connecting" -> {"Connecting", "Transferring", "Failed"}
    [] ph = "Transferring" -> {"Transferring", "Completed", "TimedOut", "Failed"}
    [] OTHER -> {ph}

SingleFileDownload ==
  /\ config.op = "download"
  /\ \A i \in Active : rfs[hostname(i)][config.RemotePath].kind = "file"

\* C22: the download of a single file goes from Idle through Connecting and
\* Transferring to one of Completed, TimedOut and Failed and stays there: no
\* state is left for an earlier one, a transfer that ended is not started
\* again, and a worker emits one record.
C22_OneShotTransfer ==
  [][SingleFileDownload =>
       \A i \in Active :
         /\ Phase(i)' \in PhasesAfter(Phase(i))
         /\ Len(logged'[i]) <= 1]_vars

\* A single-file download that timed out after its local file was created,
\* its worker finished.
C22_Witness ==
  /\ SingleFileDownload
  /\ \E i \in Active :
       /\ pc[i] = "finished" /\ Phase(i) = "TimedOut" /\ xfer[i].created

\* ------------------------------------------------------------------- C23
\* C23: when a worker emits the error record of a download that timed out or
\* failed after its local file was created, it has already removed that
\* file; and the return of a downloadFile that succeeded leaves the local
\* file as it is.
C23_CleanupBeforeRecord ==
  [][config.op = "download" =>
       \A i \in Active :
         /\ (/\ pc[i] = "dfdone" /\ Len(logged'[i]) > Len(logged[i])
             /\ Failed(werr[i]) /\ xfer[i].created) => ~xfer[i].linked
         /\ (pc[i] = "dfret" /\ pc'[i] = "dfdone" /\ ~Failed(werr[i])) =>
              /\ lfs' = lfs
              /\ xfer'[i].linked = xfer[i].linked]_vars

\* An error record of a transfer that failed in the copy has been emitted,
\* after the removal of the local file; and another worker's transfer has
\* returned with success.
C23_Witness ==
  /\ config.op = "download"
  /\ \E i, j \in Active :
       /\ pc[i] \in {"exit", "finished"} /\ xfer[i].created /\ ~xfer[i].linked
       /\ Len(logged[i]) > 0
       /\ logged[i][Len(logged[i])].err.kind \in {"read", "write", "shortwrite"}
       /\ pc[j] = "dfdone" /\ ~Failed(werr[j]) /\ xfer[j].created

\* ------------------------------------------------------------------- C24
\* C24: workers of different hosts share no file: a local file that the
\* worker of one host has created is never the local file that the worker of
\* another host has created.
C24_NoSharedState ==
  \A i, j \in Active :
    (/\ hostname(i) # hostname(j)
     /\ xfer[i].created /\ xfer[j].created) => xfer[i].l # xfer[j].l

\* ------------------------------------------------------------------- C25
\* C25: a done channel never holds more than the one value of its capacity,
\* so the send of the background goroutine never blocks; and once a worker
\* has taken the timeout branch it keeps its timeout error, never receives
\* from done again, keeps every record it has emitted as it is, and the late
\* send of the goroutine emits or writes nothing.
C25_LateResultDiscarded ==
  /\ [](\A i \in Workers : Len(doneCh[i]) <= 1)
  /\ [][\A i \in Active :
          werr[i].kind = "timeout" =>
            /\ werr'[i] = werr[i]
            /\ Len(doneCh'[i]) >= Len(doneCh[i])
            /\ Len(logged'[i]) >= Len(logged[i])
            /\ \A k \in 1..Len(logged[i]) : logged'[i][k] = logged[i][k]
            /\ doneCh'[i] # doneCh[i] =>
                 logged' = logged /\ written' = written]_vars

\* A worker has finished with its timeout record; the goroutine has since
\* made its send and exited, and the value lies unread in the channel.
C25_Witness ==
  \E i \in Active :
    /\ pc[i] = "finished" /\ werr[i].kind = "timeout"
    /\ bg[i] = "exited" /\ Len(doneCh[i]) = 1
    /\ Len(logged[i]) > 0
    /\ logged[i][Len(logged[i])].err.kind = "timeout"

\* ------------------------------------------------------------------- C26
\* The position of a stage in the order of the worker function; the steps of
\* a transfer of DownloadFiles, which repeat per file of a directory, share
\* the position of the wait.
Stage(p) ==
  CASE p = "idle" -> 0
    [] p = "auth" -> 1
    [] p = "dial" -> 2
    [] p = "session" -> 3
    [] p \in {"mkdir", "stat"} -> 4
    [] p = "openlocal" -> 5
    [] p \in {"create", "start"} -> 6
    [] p \in {"walk", "dfopen", "wait", "dfret", "dfdone"} -> 7
    [] p = "report" -> 9
    [] p = "exit" -> 10
    [] OTHER -> 11

\* The stages before the operation has started.
SetupStages == {"auth", "dial", "session", "mkdir", "stat", "openlocal",
                "create", "start"}

\* C26: a worker never goes back to an earlier stage, and in ExecuteCommands
\* and UploadFiles never enters a stage twice; a step that leaves a set-up
\* stage either goes on to a later stage and emits nothing, or emits one error
\* record, the worker's first, and ends the worker function; and a worker
\* of ExecuteCommands or UploadFiles that has emitted a record is at its end.
C26_FailFastStages ==
  /\ [](\A i \in Active :
          (config.op \in {"cmd", "upload"} /\ Len(logged[i]) > 0) =>
            pc[i] \in {"exit", "finished"} /\ Len(logged[i]) = 1)
  /\ [][\A i \in Active :
          /\ Stage(pc'[i]) >= Stage(pc[i]) \/ pc'[i] = "idle"
          /\ (config.op \in {"cmd", "upload"} /\ pc'[i] # pc[i]) =>
               Stage(pc'[i]) > Stage(pc[i]) \/ pc'[i] = "idle"
          /\ (pc[i] \in SetupStages /\ pc'[i] # pc[i]) =>
               \/ /\ pc'[i] # "exit"
                  /\ logged'[i] = logged[i] /\ written'[i] = written[i]
               \/ /\ pc'[i] = "exit"
                  /\ logged[i] = <<>> /\ Len(logged'[i]) = 1
                  /\ logged'[i][1].status = "error"
          /\ (pc[i] \in SetupStages /\ logged'[i] # logged[i]) =>
               pc'[i] = "exit"]_vars

\* One worker has failed at its first stage and another at the last set-up
\* stage of an upload; each has its one error record and has finished.
C26_Witness ==
  /\ config.op = "upload"
  /\ \E i, j \in Active :
       /\ pc[i] = "finished" /\ pc[j] = "finished"
       /\ Len(logged[i]) = 1 /\ logged[i][1].err.kind = "dial"
       /\ Len(logged[j]) = 1 /\ logged[j][1].err.kind = "create"

\* ------------------------------------------------------------------- C27
\* Another process appends a byte to the local source file while the call
\* is under way.
SourceAppended ==
  /\ config.op = "upload"
  /\ lfs[config.UploadFile].kind = "file"
  /\ Len(lfs[config.UploadFile].data) <= MaxFileLen
  /\ lfs' = [lfs EXCEPT ![config.UploadFile].data = Append(@, 1)]
  /\ UNCHANGED <<callVars, pc, auth, addr, mkdirs, open, raceVars, sinkVars,
                 xfer, steps, rfs>>

\* The uploads among the invocations.
UploadInvocations == { inv \in Invocations : inv[1].op = "upload" }

InitUpload == InitWith(UploadInvocations)

\* The steps of an upload worker.
UploadWorker(i) ==
  \/ Authenticate(i)
  \/ Dial(i)
  \/ NewSftpClient(i)
  \/ EnsureRemoteDir(i)
  \/ OpenLocal(i)
  \/ CreateRemote(i)
  \/ UploadCopy(i)
  \/ Tick(i)
  \/ ReceiveDone(i)
  \/ ReceiveTimeout(i)
  \/ UploadReport(i)
  \/ Exit(i)

NextUpload ==
  \/ Call
  \/ Return
  \/ \E i \in Workers : UploadWorker(i)
  \/ SourceAppended

SpecUpload == InitUpload /\ [][NextUpload]_vars

\* C27: when the local source file of UploadFiles is missing, no worker is
\* started, nothing is dialled and no record is produced; otherwise the size
\* is read in the one step that starts the workers and never again, every
\* record of a finished copy, of whatever host, carries that value even when
\* the file has changed since, and a record of a failed set-up stage
\* carries no size.
C27_CheckedOnce ==
  /\ [](~(lfs[config.UploadFile].kind = "file") =>
          /\ wg = 0 /\ fileSize = 0
          /\ \A i \in Workers :
               /\ pc[i] = "idle" /\ addr[i] = <<>> /\ auth[i] = <<>>
               /\ logged[i] = <<>> /\ written[i] = <<>>)
  /\ [](\A i \in Active : \A k \in 1..Len(logged[i]) :
          logged[i][k].size =
            IF logged[i][k].status = "success"
               \/ logged[i][k].err.kind \in {"io", "closed", "timeout"}
              THEN fileSize ELSE 0)
  /\ [][fileSize' # fileSize =>
          /\ mainpc = "start" /\ mainpc' = "waiting"
          /\ fileSize' = Len(lfs[config.UploadFile].data)]_vars

\* Two hosts have their success records with the size read before the
\* workers started, and the source file has grown since.
C27_Witness ==
  /\ Len(hosts) = 2
  /\ \A i \in Active :
       /\ pc[i] = "finished" /\ Len(logged[i]) = 1
       /\ logged[i][1].status = "success" /\ logged[i][1].size = fileSize
  /\ fileSize > 0
  /\ Len(lfs[config.UploadFile].data) > fileSize

\* ------------------------------------------- download of a directory tree
\* The tree /d of host a with the two orders in which a server may list /d:
\* the file before the sub-directory, or after it.
WalkTrees ==
  { [RemoteTree(<<"a">>) EXCEPT ![<<"d">>].data = order] :
      order \in {<<"f1", "s">>, <<"s", "f1">>} }

\* -remote-path /d, on one host.
WalkInvocations ==
  { inv \in Invocations : inv[1].op = "download" /\ inv[1].RemotePath = <<"d">> }

InitTree(invocations) ==
  /\ \E inv \in invocations :
       /\ config = inv[1]
       /\ hosts = inv[2]
       /\ lfs = LocalDisk(inv[3])
  /\ mainpc = "start"
  /\ wg = 0
  /\ pc = [i \in Workers |-> "idle"]
  /\ auth = [i \in Workers |-> <<>>]
  /\ addr = [i \in Workers |-> <<>>]
  /\ mkdirs = [i \in Workers |-> <<>>]
  /\ open = [i \in Workers |-> {}]
  /\ elapsed = [i \in Workers |-> 0]
  /\ doneCh = [i \in Workers |-> <<>>]
  /\ bg = [i \in Workers |-> "none"]
  /\ signalled = [i \in Workers |-> FALSE]
  /\ werr = [i \in Workers |-> NoErr]
  /\ logged = [i \in Workers |-> <<>>]
  /\ written = [i \in Workers |-> <<>>]
  /\ warned = [i \in Workers |-> FALSE]
  /\ fileSize = 0
  /\ xfer = [i \in Workers |-> NoTransfer]
  /\ steps = [i \in Workers |-> <<>>]
  /\ \E tree \in WalkTrees : rfs = [h \in HostNames |-> tree]
  /\ sql = NoQuery
  /\ clock = [day |-> 0, ms |-> 0]
  /\ tty = <<>>
  /\ logfs = EmptyLog
  /\ lastCleanup = clock

InitWalk == InitTree(WalkInvocations)

\* The steps of a download worker.
DownloadWorker(i) ==
  \/ Authenticate(i)
  \/ Dial(i)
  \/ NewSftpClient(i)
  \/ StatRemote(i)
  \/ WalkStep(i)
  \/ OpenTransfer(i)
  \/ DownloadRead(i)
  \/ DownloadWrite(i)
  \/ Tick(i)
  \/ ReceiveDone(i)
  \/ ReceiveTimeout(i)
  \/ DownloadFileReturn(i)
  \/ DownloadReport(i)
  \/ Exit(i)

NextWalk ==
  \/ Call
  \/ Return
  \/ \E i \in Workers : DownloadWorker(i)

SpecWalk == InitWalk /\ [][NextWalk]_vars

\* ------------------------------------------------------------------- C28
\* The place of name n in the listing of directory p of host h (0 when it is
\* not listed).
ListedAt(h, p, n) ==
  LET names == ReadDir(rfs[h], p)
  IN IF \E k \in 1..Len(names) : names[k] = n
       THEN CHOOSE k \in 1..Len(names) : names[k] = n
       ELSE 0

\* Path p comes before path q in the traversal of host h: where the two
\* part, the entry p goes through is listed before the entry q goes through.
Precedes(h, p, q) ==
  \E n \in 1..Len(p) :
    /\ n <= Len(q)
    /\ SubSeq(p, 1, n - 1) = SubSeq(q, 1, n - 1)
    /\ p[n] # q[n]
    /\ ListedAt(h, SubSeq(p, 1, n - 1), p[n]) > 0
    /\ ListedAt(h, SubSeq(p, 1, n - 1), p[n])
         < ListedAt(h, SubSeq(q, 1, n - 1), q[n])

\* C28: in a directory download the copy goroutine of a transfer runs only
\* while its worker is in that transfer, and no transfer begins while an
\* earlier one is still copying; when a transfer begins, the files begun
\* before it all have their success records, the last record being that of
\* the transfer just before; and the per-file records of a host are in the
\* order of the traversal, each entry at its place in the listing of its
\* directory and the files of a sub-directory all at the place of that
\* sub-directory.
C28_SequentialTraversal ==
  /\ [](\A i \in Active :
          /\ bg[i] \in {"reading", "writing"} =>
               \/ pc[i] = "wait"
               \/ /\ werr[i].kind = "timeout"
                  /\ pc[i] \in {"dfret", "dfdone", "exit", "finished"}
          /\ \A k, m \in 1..Len(logged[i]) :
               (k < m /\ logged[i][m].status = "success") =>
                 /\ logged[i][k].status = "success"
                 /\ Precedes(hostname(i), logged[i][k].remote, logged[i][m].remote))
  /\ [][\A i \in Active :
          (pc[i] = "walk" /\ pc'[i] = "dfopen") =>
            /\ bg[i] \in {"none", "exited"}
            /\ IF xfer[i] = NoTransfer
                 THEN logged[i] = <<>>
                 ELSE /\ logged[i] # <<>>
                      /\ logged[i][Len(logged[i])].status = "success"
                      /\ logged[i][Len(logged[i])].remote = xfer[i].r
                      /\ Precedes(hostname(i), xfer[i].r, xfer'[i].r)]_vars

\* The server lists the sub-directory s before the file f1; the worker has
\* finished with the record of s/f2 first and the record of f1 second.
C28_Witness ==
  \E i \in Active :
    /\ pc[i] = "finished"
    /\ ReadDir(rfs[hostname(i)], <<"d">>) = <<"s", "f1">>
    /\ Len(logged[i]) = 2
    /\ logged[i][1].remote = <<"d", "s", "f2">> /\ logged[i][1].status = "success"
    /\ logged[i][2].remote = <<"d", "f1">> /\ logged[i][2].status = "success"

\* ------------------------------------------------------------------- C29
\* A timeout long enough for a file to take time and still finish within
\* it, and short enough for two such files to take longer than it together.
FileDeadline == MaxTimeout + 2

\* -remote-path /d on one host with -timeout FileDeadline.
DeadlineInvocations ==
  { <<[inv[1] EXCEPT !.Timeout = FileDeadline], inv[2], inv[3]>> :
      inv \in { w \in WalkInvocations :
                  w[1].Timeout > 0 /\ w[1].Key = "k" /\ w[1].Password = "" } }

InitDeadline == InitTree(DeadlineInvocations)

\* One second passes, for the worker that is blocked in its select and on
\* the clock on the wall.
SecondPasses(i) ==
  /\ pc[i] = "wait"
  /\ doneCh[i] = <<>>
  /\ ~TimerExpired(i)
  /\ elapsed' = [elapsed EXCEPT ![i] = @ + 1]
  /\ clock' = [clock EXCEPT !.ms = @ + 1000]
  /\ UNCHANGED <<config, hosts, mainpc, wg, fileSize, sql, tty, pc, auth, addr,
                 mkdirs, open, doneCh, bg, signalled, werr, sinkVars, xfer,
                 steps, fsVars>>

DeadlineWorker(i) ==
  \/ Authenticate(i)
  \/ Dial(i)
  \/ NewSftpClient(i)
  \/ StatRemote(i)
  \/ WalkStep(i)
  \/ OpenTransfer(i)
  \/ DownloadRead(i)
  \/ DownloadWrite(i)
  \/ SecondPasses(i)
  \/ ReceiveDone(i)
  \/ ReceiveTimeout(i)
  \/ DownloadFileReturn(i)
  \/ DownloadReport(i)
  \/ Exit(i)

NextDeadline ==
  \/ Call
  \/ Return
  \/ \E i \in Workers : DeadlineWorker(i)

SpecDeadline == InitDeadline /\ [][NextDeadline]_vars

\* C29: in a directory download with timeout N > 0 the timer of every file
\* starts from zero when the wait for that file starts, it advances only
\* with the seconds that pass during that wait, and a worker takes the
\* timeout branch only when the timer of the file it is waiting for has
\* reached N: the time the files before it took does not count.
C29_FreshDeadlinePerFile ==
  [][\A i \in Active :
       /\ (pc[i] = "dfopen" /\ pc'[i] = "wait") => elapsed'[i] = 0
       /\ elapsed'[i] # elapsed[i] =>
            \/ elapsed'[i] = 0
            \/ /\ elapsed'[i] = elapsed[i] + 1
               /\ pc[i] = "wait" /\ pc'[i] = "wait"
               /\ clock'.ms = clock.ms + 1000
       /\ clock' # clock => elapsed'[i] = elapsed[i] + 1
       /\ (werr'[i].kind = "timeout" /\ werr[i].kind # "timeout") =>
            /\ pc[i] = "wait"
            /\ elapsed[i] >= config.Timeout]_vars

\* The whole tree has been downloaded, every file within the timeout and
\* with its success record, and the download took longer than the timeout.
C29_Witness ==
  \E i \in Active :
    /\ pc[i] = "finished" /\ werr[i] = NoErr
    /\ Len(logged[i]) = 2
    /\ \A k \in 1..2 : logged[i][k].status = "success"
    /\ clock.ms > 1000 * config.Timeout

\* ------------------------------------------------------------------- C30
\* C30: the hash of a transfer is fed only by the write of a chunk, which
\* puts the same bytes into the local file at the offset that equals the
\* number of bytes hashed so far, and every chunk written to the file is fed
\* to the hash; so a transfer that has succeeded on the only host has hashed
\* exactly the bytes its local file holds, and the digest in its success
\* record is the MD5 of those bytes.
C30_DigestOfWrittenBytes ==
  /\ [][\A i \in Active :
          config.op = "download" =>
            /\ xfer'[i].hash # xfer[i].hash =>
                 \/ xfer'[i].hash = <<>>
                 \/ bg[i] = "writing" /\ bg'[i] = "reading"
            /\ (bg[i] = "writing" /\ bg'[i] = "reading") =>
                 LET c == xfer[i].buf
                     off == xfer[i].off
                 IN /\ c # <<>>
                    /\ off = Len(xfer[i].hash)
                    /\ xfer'[i].hash = xfer[i].hash \o c
                    /\ xfer[i].linked =>
                         SubSeq(lfs'[xfer[i].l].data, off + 1, off + Len(c)) = c]_vars
  /\ [](\A i \in Active :
          (config.op = "download" /\ Len(hosts) = 1) =>
            /\ (pc[i] = "dfdone" /\ ~Failed(werr[i])) =>
                 /\ lfs[xfer[i].l].data = xfer[i].hash
                 /\ xfer[i].hash = rfs[hostname(i)][xfer[i].r].data
            /\ \A k \in 1..Len(logged[i]) :
                 logged[i][k].status = "success" =>
                   logged[i][k].md5 = Md5Sum(lfs[logged[i][k].local].data))

\* The one host's download of a file of two chunks has succeeded: the local
\* file holds both chunks in order and the record has their digest.
C30_Witness ==
  /\ config.op = "download" /\ Len(hosts) = 1
  /\ pc[1] = "finished" /\ Len(logged[1]) = 1
  /\ logged[1][1].status = "success"
  /\ Len(lfs[logged[1][1].local].data) > ChunkLen
  /\ logged[1][1].md5 = Md5Sum(lfs[logged[1][1].local].data)
  /\ logged[1][1].md5 # Md5Sum(<<>>)

\* ------------------------------------------------ commands that print text
MaxTextLen == 3
TextChars == {"ESC", "[", "1", "m", "a"}

\* What a remote command prints: any text of up to MaxTextLen characters,
\* or an escaped ESC in front of a bracket sequence.
Texts ==
  UNION { [1..n -> TextChars] : n \in 0..MaxTextLen }
    \cup { <<"\\", "u", "0", "0", "1", "b", "[", "1", "m">> }

\* -cmd on one host, with every flag combination.
TextInvocations ==
  { inv \in Invocations : inv[1].op = "cmd" /\ Len(inv[2]) = 1 }

InitText ==
  /\ InitRun(TextInvocations)
  /\ sql = NoQuery
  /\ clock = [day |-> 0, ms |-> 0]
  /\ tty \in Texts
  /\ logfs = EmptyLog
  /\ lastCleanup = clock

\* The steps of a command worker.
TextWorker(i) ==
  \/ Authenticate(i)
  \/ Dial(i)
  \/ NewSession(i)
  \/ StartCommand(i)
  \/ CommandEnds(i)
  \/ Tick(i)
  \/ ReceiveDone(i)
  \/ ReceiveTimeout(i)
  \/ CmdReport(i)
  \/ Exit(i)

NextText ==
  \/ Call
  \/ Return
  \/ \E i \in Workers : TextWorker(i)

SpecText == InitText /\ [][NextText]_vars

\* A complete control sequence starts somewhere in the text s.
HasSequence(s) == \E p \in 1..Len(s) : s[p] = "ESC" /\ MatchEnd(s, p) > 0

\* C31: the standard output of every command record, the one handed to the
\* logger and the one put on the writer, in JSON mode and in text mode alike,
\* holds no terminal control sequence.
C31_OutputStripped ==
  \A i \in Workers :
    /\ \A k \in 1..Len(logged[i]) : ~HasSequence(logged[i][k].stdout)
    /\ \A k \in 1..Len(written[i]) : ~HasSequence(written[i][k].stdout)

\* The part of C31 that holds: the record handed to the logger, and the
\* record put on the writer in text mode, hold no control sequence.
C31_LoggedAndTextStripped ==
  \A i \in Workers :
    /\ \A k \in 1..Len(logged[i]) : ~HasSequence(logged[i][k].stdout)
    /\ ~config.JSONOutput =>
         \A k \in 1..Len(written[i]) : ~HasSequence(written[i][k].stdout)

\* C37: CleanAnsiSequences returns a text without an ESC character unchanged:
\* when the command printed no ESC, the text-mode record of a command that
\* ended by itself shows exactly what it printed.
C37_PlainTextKept ==
  (\A p \in 1..Len(tty) : tty[p] # "ESC") =>
    \A i \in Workers :
      ~config.JSONOutput /\ bg[i] = "exited" =>
        \A k \in 1..Len(written[i]) :
          written[i][k].status = "success" => written[i][k].stdout = tty

\* C34: a command worker that is about to build its result record, also after
\* the timeout branch, reads buffers that nobody writes any more: the
\* goroutines of the session that copy the command's output into them have
\* ended, that is, session.Wait() has returned.
C34_BuffersQuiescent ==
  \A i \in Workers :
    config.op = "cmd" /\ pc[i] = "report" => bg[i] # "running"

\* C35: when downloadFile evaluates the byte count it returns, on every path
\* and also after the timeout, the copy goroutine has ended and no longer
\* updates the counter.
C35_CounterQuiescent ==
  \A i \in Workers :
    pc[i] = "dfret" => bg[i] \notin {"reading", "writing"}

\* The bytes worker i has transferred: io.Copy's count for an upload, the
\* bytes written to the local file for a download.
Transferred(i) ==
  IF config.op = "upload" THEN xfer[i].off ELSE xfer[i].downloaded

\* C32: the size in a success record is the number of bytes transferred: for
\* an upload the bytes copied into the remote file, for the download of a
\* file the bytes written to the local file.
C32_SizeIsBytesTransferred ==
  \A i \in Active :
    /\ config.op = "upload" \/ SingleFileDownload
    /\ pc[i] \in {"exit", "finished"}
    => \A k \in 1..Len(logged[i]) :
         logged[i][k].status = "success" => logged[i][k].size = Transferred(i)

\* C33: when DownloadFiles has returned, every success record emitted during
\* the call names a local path at which a file exists whose content has the
\* size and the MD5 of the record, whatever the number of hosts and the
\* interleaving of their workers.
C33_RecordsMatchDisk ==
  Returned /\ config.op = "download" =>
    \A i \in Active : \A k \in SuccessesOf(logged[i]) :
      LET rec == logged[i][k]
      IN /\ lfs[rec.local].kind = "file"
         /\ Len(lfs[rec.local].data) = rec.size
         /\ Md5Sum(lfs[rec.local].data) = rec.md5

\* ------------------------------------------------------------------ main
\* The flags main chooses the operation by, each unset or set, without a
\* timeout and with one; the database flags are given.  op is the operation main has started: none yet.
MainConfigs ==
  { [DefaultConfig EXCEPT !.op = "none", !.Timeout = t,
                          !.UploadFile = uf, !.UploadDir = ud,
                          !.RemotePath = rp, !.LocalPath = lp, !.Cmd = c,
                          !.SQL = q, !.DBType = "dm", !.DBHost = "h",
                          !.DBUser = "SYSDBA"] :
      uf \in {<<>>, <<"src", "f">>}, ud \in {<<>>, <<"up">>},
      rp \in {<<>>, <<"d">>, <<"d", "f1">>}, lp \in {<<>>, <<"dl">>},
      c \in {<<>>, <<"l", "s">>}, q \in {"", "q"}, t \in Timeouts }

\* main after config.Parse, logger.NewLogger and config.GetHosts, which
\* gave no host or the one host a.
InitMain ==
  /\ config \in MainConfigs
  /\ hosts \in {<<>>, << <<"a">> >>}
  /\ lfs = LocalDisk(File(<<1, 2>>))
  /\ mainpc = "main"
  /\ wg = 0
  /\ pc = [i \in Workers |-> "idle"]
  /\ auth = [i \in Workers |-> <<>>]
  /\ addr = [i \in Workers |-> <<>>]
  /\ mkdirs = [i \in Workers |-> <<>>]
  /\ open = [i \in Workers |-> {}]
  /\ elapsed = [i \in Workers |-> 0]
  /\ doneCh = [i \in Workers |-> <<>>]
  /\ bg = [i \in Workers |-> "none"]
  /\ signalled = [i \in Workers |-> FALSE]
  /\ werr = [i \in Workers |-> NoErr]
  /\ logged = [i \in Workers |-> <<>>]
  /\ written = [i \in Workers |-> <<>>]
  /\ warned = [i \in Workers |-> FALSE]
  /\ fileSize = 0
  /\ xfer = [i \in Workers |-> NoTransfer]
  /\ steps = [i \in Workers |-> <<>>]
  /\ rfs = [h \in HostNames |-> RemoteTree(h)]
  /\ sql = NoQuery
  /\ clock = [day |-> 0, ms |-> 0]
  /\ tty = <<>>
  /\ logfs = EmptyLog
  /\ lastCleanup = clock

\* Operation with the command looked at first.
OperationCmdFirst ==
  IF config.Cmd # <<>> THEN "cmd"
  ELSE IF config.UploadFile # <<>> /\ config.UploadDir # <<>> THEN "upload"
  ELSE IF config.RemotePath # <<>> /\ config.LocalPath # <<>> THEN "download"
  ELSE IF config.SQL # "" THEN "sql"
  ELSE "none"

\* The branch of main's if / else-if chain that the flags select.
Operation ==
  IF config.UploadFile # <<>> /\ config.UploadDir # <<>> THEN "upload"
  ELSE IF config.RemotePath # <<>> /\ config.LocalPath # <<>> THEN "download"
  ELSE IF config.Cmd # <<>> THEN "cmd"
  ELSE IF config.SQL # "" THEN "sql"
  ELSE "none"

\* main's chain: the first branch whose flags are given.  A branch of an SSH
\* operation without a host, and the last branch, end the process with
\* os.Exit(1); the others call the one function of the operation.
Dispatch ==
  /\ mainpc = "main"
  /\ IF Operation = "none" \/ (Operation # "sql" /\ Len(hosts) = 0)
       THEN /\ mainpc' = "exited"
            /\ UNCHANGED <<config, sql>>
     ELSE IF Operation = "sql"
       THEN /\ config' = [config EXCEPT !.op = "sql"]
            /\ sql' = [sql EXCEPT !.pc = "start"]
            /\ mainpc' = "sql"
       ELSE /\ config' = [config EXCEPT !.op = Operation]
            /\ mainpc' = "start"
            /\ UNCHANGED sql
  /\ UNCHANGED <<hosts, wg, fileSize, clock, tty, pc, auth, addr, mkdirs, open,
                 raceVars, sinkVars, xfer, steps, fsVars>>

NextMain ==
  \/ Dispatch
  \/ Call
  \/ Return
  \/ \E i \in Workers : Worker(i)
  \/ SqlCheckFlags
  \/ SqlOpen
  \/ SqlQuery
  \/ SqlTick
  \/ SqlQueryReturns
  \/ SqlNextRow

SpecMain == InitMain /\ [][NextMain]_vars

UploadFlags == config.UploadFile # <<>> /\ config.UploadDir # <<>>
DownloadFlags == config.RemotePath # <<>> /\ config.LocalPath # <<>>

\* C36: main starts at most one operation, once, and it is the first of
\* upload (upload-file and upload-dir), download (remote-path and
\* local-path), command and SQL whose flags are given: workers run only for
\* the SSH operation started and a query only for SQL, and an operation is
\* never the started one when the flags of one of higher priority are given.
C36_OneOperationByPriority ==
  /\ [][config'.op # config.op =>
          /\ config.op = "none" /\ mainpc = "main"
          /\ config' = [config EXCEPT !.op = config'.op]]_vars
  /\ [](/\ (\E i \in Workers : pc[i] # "idle") =>
             config.op \in {"upload", "download", "cmd"} /\ sql.pc = "idle"
        /\ sql.pc # "idle" =>
             config.op = "sql" /\ \A i \in Workers : pc[i] = "idle"
        /\ config.op = "upload" => UploadFlags
        /\ config.op = "download" => DownloadFlags /\ ~UploadFlags
        /\ config.op = "cmd" =>
             config.Cmd # <<>> /\ ~UploadFlags /\ ~DownloadFlags
        /\ config.op = "sql" =>
             /\ config.SQL # "" /\ config.Cmd = <<>>
             /\ ~UploadFlags /\ ~DownloadFlags
        /\ config.op = "none" =>
             /\ \A i \in Workers : pc[i] = "idle" /\ logged[i] = <<>>
             /\ sql.pc = "idle" /\ wg = 0)

\* Every flag was given together with a host: the upload has been run to its
\* success record and main has returned; no query was started.
C36_Witness ==
  /\ UploadFlags /\ DownloadFlags /\ config.Cmd # <<>> /\ config.SQL # ""
  /\ config.op = "upload" /\ mainpc = "returned"
  /\ logged[1] # <<>> /\ logged[1][1].status = "success"
  /\ sql.pc = "idle"

====
